---- MODULE Spec2Model ----
(***************************************************************************)
(* Production-Tracker: the payroll line parser (pdfParser.js), the cost    *)
(* code normalizers (database.js and server.js) and the budget/actual      *)
(* reconciliation (server.js) over the JSON record store (database.js).    *)
(*                                                                         *)
(* Text is modelled as sequences of one-character strings.  A line of the  *)
(* extracted PDF text is a record [lead, wide, toks]: lead says whether    *)
(* the line starts with whitespace, toks are its whitespace-separated      *)
(* tokens and wide says whether the gaps between its columns are several   *)
(* blanks wide.  Every regular expression of the parser separates columns  *)
(* with \s+, so the exact width of a gap matters only where a lazy group   *)
(* may take blanks of the gap itself, which is what wide records.          *)
(***************************************************************************)
EXTENDS Integers, Sequences, FiniteSets, TLC

\* ------------------------------------------------------------------ bounds
\* longest document (in lines) the parser is run on
MaxLines == 3
\* longest document of the runs that follow a parse to its return
MaxFairLines == 2
\* decimal places kept by the fixed-point image of a JS number
FracDigits == 5
\* longest raw cost code given to the normalizer on its own
MaxCodeLen == 5
\* most records in entries.json and in budgets.json
MaxStoreEntries == 1
MaxBudgets == 1
\* the entries the store may hold while the areas are reconciled
MaxAreaEntries == 2
\* the budget uploads of a history
MaxUploads == 2
\* the entries of the store while entries are uploaded, edited and read
MaxEntries == 2
\* most requests in flight at once
MaxRequests == 2
\* most store writes of a run of concurrent requests
MaxWrites == 1
MaxProjects == 2

\* ------------------------------------------------------------- characters
DigitSeq == <<"0","1","2","3","4","5","6","7","8","9">>
UpperSeq == <<"A","B","C","D","E","F","G","H","I","J","K","L","M",
              "N","O","P","Q","R","S","T","U","V","W","X","Y","Z">>
LowerSeq == <<"a","b","c","d","e","f","g","h","i","j","k","l","m",
              "n","o","p","q","r","s","t","u","v","w","x","y","z">>

Range(f) == {f[k] : k \in DOMAIN f}

\* \d
IsDigit(c) == c \in Range(DigitSeq)
\* [A-Z]
IsUpper(c) == c \in Range(UpperSeq)
\* [a-z]
IsLower(c) == c \in Range(LowerSeq)

DigitVal(c) == (CHOOSE k \in 1..10 : DigitSeq[k] = c) - 1

\* String.prototype.toLowerCase on one character (the i flag of a regex)
ToLower(c) == IF IsUpper(c) THEN LowerSeq[CHOOSE k \in 1..26 : UpperSeq[k] = c] ELSE c

LowerStr(s) == [k \in 1..Len(s) |-> ToLower(s[k])]

\* the JS value null where a string is expected (no string has a
\* several-character element)
Null == <<"null">>

Min(a, b) == IF a < b THEN a ELSE b

RECURSIVE Pow10(_)
Pow10(n) == IF n = 0 THEN 1 ELSE 10 * Pow10(n - 1)

\* one hour (or one unit of any JS number) in fixed point
Scale == Pow10(FracDigits)

\* \d* on a whole string
AllDigits(s) == \A k \in 1..Len(s) : IsDigit(s[k])

StartsWith(s, p) == Len(s) >= Len(p) /\ SubSeq(s, 1, Len(p)) = p
EndsWith(s, p) == Len(s) >= Len(p) /\ SubSeq(s, Len(s) - Len(p) + 1, Len(s)) = p

\* the text of tokens lo..hi of a line, one blank between two tokens
RECURSIVE JoinToks(_, _, _)
JoinToks(toks, lo, hi) ==
  IF lo > hi THEN <<>>
  ELSE IF lo = hi THEN toks[lo]
  ELSE toks[lo] \o <<" ">> \o JoinToks(toks, lo + 1, hi)

\* line.trim()
TrimLine(line) == JoinToks(line.toks, 1, Len(line.toks))

\* !line : the empty string
IsEmptyLine(line) == ~line.lead /\ line.toks = <<>>

\* value of a run of decimal digits
RECURSIVE DigitsVal(_)
DigitsVal(s) ==
  IF s = <<>> THEN 0
  ELSE DigitsVal(SubSeq(s, 1, Len(s) - 1)) * 10 + DigitVal(s[Len(s)])

\* length of the longest prefix of s made of digits
RECURSIVE DigitPrefixLen(_)
DigitPrefixLen(s) ==
  IF s = <<>> \/ ~IsDigit(s[1]) THEN 0
  ELSE 1 + DigitPrefixLen(Tail(s))

\* parseFloat(clean) || 0 for a string of digits and points: the integer
\* digits, then at most one point followed by fraction digits; NaN (no digit
\* on either side) becomes 0.  The value is in units of 1/Scale, fraction
\* digits beyond FracDigits are cut.
ParseFloatOr0(clean) ==
  LET ni == DigitPrefixLen(clean)
      rest == SubSeq(clean, ni + 1, Len(clean))
      nf == IF rest # <<>> /\ rest[1] = "." THEN DigitPrefixLen(Tail(rest)) ELSE 0
      frac == IF nf = 0 THEN <<>> ELSE SubSeq(rest, 2, Min(nf, FracDigits) + 1)
  IN DigitsVal(SubSeq(clean, 1, ni)) * Scale
       + DigitsVal(frac) * Pow10(FracDigits - Len(frac))

IsDigitOrPoint(c) == IsDigit(c) \/ c = "."

\* parseNumber: strip everything but digits and points, then parseFloat || 0
\* (clean is bound once, as the const of the source is)
parseNumber(value) ==
  IF value = Null THEN 0
  ELSE CHOOSE n \in {ParseFloatOr0(clean) :
                       clean \in {SelectSeq(value, IsDigitOrPoint)}} : TRUE

\* \d{2}\/\d{2}\/\d{2} at the start of a string
HasDatePrefix(t) ==
  /\ Len(t) >= 8
  /\ IsDigit(t[1]) /\ IsDigit(t[2]) /\ t[3] = "/"
  /\ IsDigit(t[4]) /\ IsDigit(t[5]) /\ t[6] = "/"
  /\ IsDigit(t[7]) /\ IsDigit(t[8])

\* a conversion whose pivot year still counts as 20YY
convertDatePivotInclusive(dateStr) ==
  LET month == SubSeq(dateStr, 1, 2)
      day == SubSeq(dateStr, 4, 5)
      year == SubSeq(dateStr, 7, 8)
      fullYear == IF DigitsVal(year) <= 50 THEN <<"2","0">> \o year
                  ELSE <<"1","9">> \o year
  IN fullYear \o <<"-">> \o month \o <<"-">> \o day

\* convertDate: MM/DD/YY to YYYY-MM-DD, two-digit years below 50 are 20YY
convertDate(dateStr) ==
  LET month == SubSeq(dateStr, 1, 2)
      day == SubSeq(dateStr, 4, 5)
      year == SubSeq(dateStr, 7, 8)
      fullYear == IF DigitsVal(year) < 50 THEN <<"2","0">> \o year
                  ELSE <<"1","9">> \o year
  IN fullYear \o <<"-">> \o month \o <<"-">> \o day

\* ------------------------------------------------- pdfParser.js: patterns
\* [a-zA-Z\s\.'-] without the \s (blanks lie between the tokens)
IsNameChar(c) == IsUpper(c) \/ IsLower(c) \/ c \in {".", "'", "-"}

\* index of the token holding the date of an employee header line, 0 if the
\* line is no header (a one-letter name needs a second blank to fill the +?):  /^(\d{4})\s+([A-Z][a-zA-Z\s\.'-]+?)\s+(\d{2}\/\d{2}\/\d{2})/
EmployeeDateTok(line) ==
  LET toks == line.toks
      Cand == {j \in 3..Len(toks) :
                 /\ HasDatePrefix(toks[j])
                 /\ \A k \in 2..(j - 1) : (\A c \in 1..Len(toks[k]) : IsNameChar(toks[k][c]))
                 /\ (line.wide \/ Len(JoinToks(toks, 2, j - 1)) >= 2)}
  IN IF /\ ~line.lead
        /\ Len(toks) >= 3
        /\ Len(toks[1]) = 4 /\ AllDigits(toks[1])
        /\ IsUpper(toks[2][1])
        /\ Cand # {}
     THEN CHOOSE j \in Cand : \A k \in Cand : j <= k
     ELSE 0

employeeMatch(line) == EmployeeDateTok(line) > 0

\* the groups of employeeMatch: [1] union local, [2].trim() name, [3] date
EmployeeParts(line) ==
  LET j == EmployeeDateTok(line)
  IN [unionLocal |-> line.toks[1],
      name |-> JoinToks(line.toks, 2, j - 1),
      date |-> SubSeq(line.toks[j], 1, 8)]

\* /^\s+(\d{2}\/\d{2}\/\d{2})\s*$/
dateOnlyMatch(line) ==
  /\ line.lead
  /\ Len(line.toks) = 1
  /\ Len(line.toks[1]) = 8
  /\ HasDatePrefix(line.toks[1])

Str_total == <<"t","o","t","a","l">>
Str_hours == <<"h","o","u","r","s">>
Str_grand == <<"g","r","a","n","d">>

\* /total\s+hours/i.test(line) || /grand\s+totals?/i.test(line)
IsTotalLine(line) ==
  \E k \in 1..(Len(line.toks) - 1) :
    LET a == LowerStr(line.toks[k])
        b == LowerStr(line.toks[k + 1])
    IN \/ EndsWith(a, Str_total) /\ StartsWith(b, Str_hours)
       \/ EndsWith(a, Str_grand) /\ StartsWith(b, Str_total)

IsNumChar(c) == IsDigit(c) \/ c \in {".", ","}

\* length of the longest prefix of s made of [\d.,]
RECURSIVE NumPrefixLen(_)
NumPrefixLen(s) ==
  IF s = <<>> \/ ~IsNumChar(s[1]) THEN 0
  ELSE 1 + NumPrefixLen(Tail(s))

HasDigit(t) == \E p \in 1..Len(t) : IsDigit(t[p])

\* line.match(/([\d]+[\d.,]*)/g)[0]: the run of [\d.,] that starts at the
\* first digit of the line; Null when the line has no digit
FirstNumber(line) ==
  LET toks == line.toks
      K == {k \in 1..Len(toks) : HasDigit(toks[k])}
  IN IF K = {} THEN Null
     ELSE LET k == CHOOSE x \in K : \A y \in K : x <= y
              t == toks[k]
              p == CHOOSE x \in 1..Len(t) :
                     IsDigit(t[x]) /\ \A y \in 1..(x - 1) : ~IsDigit(t[y])
              rest == SubSeq(t, p, Len(t))
          IN SubSeq(rest, 1, NumPrefixLen(rest))

\* [A-Z]\d? as a whole token
IsPayClass(t) ==
  \/ Len(t) = 1 /\ IsUpper(t[1])
  \/ Len(t) = 2 /\ IsUpper(t[1]) /\ IsDigit(t[2])

\* \d{3} as a whole token
IsPayId(t) == Len(t) = 3 /\ AllDigits(t)

\* [A-Z]{2}\d{2}[A-Z][A-Z0-9] at the start of a string
HasCertPrefix(t) ==
  /\ Len(t) >= 6
  /\ IsUpper(t[1]) /\ IsUpper(t[2])
  /\ IsDigit(t[3]) /\ IsDigit(t[4])
  /\ IsUpper(t[5])
  /\ (IsUpper(t[6]) \/ IsDigit(t[6]))

\* [\d.,]+ as a whole token
IsNumTok(t) == Len(t) >= 1 /\ (\A k \in 1..Len(t) : IsNumChar(t[k]))

\* the hours column of a trailing-minus-tolerant pattern ([\d.,]+)-? whose
\* group leaves the minus out
HoursColumnLoose(t) ==
  IF IsNumTok(t) THEN t
  ELSE IF Len(t) >= 2 /\ t[Len(t)] = "-" /\ IsNumTok(SubSeq(t, 1, Len(t) - 1))
       THEN SubSeq(t, 1, Len(t) - 1)
  ELSE Null

\* the hours column ([\d.,]+) between two \s+: the captured text, Null if
\* the token is not of that shape
HoursColumn(t) == IF IsNumTok(t) THEN t ELSE Null

\* the columns both entry patterns share:
\* ^\s+([A-Z]\d?)\s+(\d{3})\s+([A-Z]{2}\d{2}[A-Z][A-Z0-9])\s+\S+\s+([\d.,]+)\s+([\d.,]+)\s+[\d.,]+\s+
EntryColumns(line) ==
  LET toks == line.toks
  IN /\ line.lead
     /\ Len(toks) >= 8
     /\ IsPayClass(toks[1])
     /\ IsPayId(toks[2])
     /\ Len(toks[3]) = 6 /\ HasCertPrefix(toks[3])
     /\ HoursColumn(toks[5]) # Null
     /\ IsNumTok(toks[6])
     /\ IsNumTok(toks[7])

\* length of the longest [\d]{1,2}-[\d]{2,5} at the start of a string, 0 if
\* there is none
CostCodePrefixLen(t) ==
  LET d == DigitPrefixLen(t)
      after == IF d >= 1 /\ d <= 2 /\ Len(t) > d /\ t[d + 1] = "-"
               THEN DigitPrefixLen(SubSeq(t, d + 2, Len(t))) ELSE 0
  IN IF after >= 2 THEN d + 1 + Min(after, 5) ELSE 0

\* index of the token that holds the cost code of the strict pattern
\* ...(.+?)\s+([\d]{1,2}-[\d]{2,5}) : the first one after a non-empty job
\* description, which in a wide gap may be a blank; 0 if the strict pattern
\* does not match
EntryCodeTok(line) ==
  LET toks == line.toks
      Cand == {j \in (IF line.wide THEN 8 ELSE 9)..Len(toks) :
                 CostCodePrefixLen(toks[j]) > 0}
  IN IF EntryColumns(line) /\ Cand # {}
     THEN CHOOSE j \in Cand : \A k \in Cand : j <= k
     ELSE 0

entryMatch(line) == EntryCodeTok(line) > 0

\* a parser without the fallback pattern
entryNoCodeMatchNever(line) == FALSE

\* the fallback ...\s+(.+) is only tried when the strict pattern failed
entryNoCodeMatch(line) == ~entryMatch(line) /\ EntryColumns(line)

\* parts = entryMatch || entryNoCodeMatch; [6] is given trimmed, [7] is
\* Null for the fallback
EntryParts(line) ==
  CHOOSE parts \in
    {[payClass |-> line.toks[1],
      payId |-> line.toks[2],
      certifiedClass |-> line.toks[3],
      hoursRaw |-> HoursColumn(line.toks[5]),
      rateRaw |-> line.toks[6],
      jobDescription |-> IF j > 0 THEN JoinToks(line.toks, 8, j - 1)
                         ELSE JoinToks(line.toks, 8, Len(line.toks)),
      costCode |-> IF j > 0
                   THEN SubSeq(line.toks[j], 1, CostCodePrefixLen(line.toks[j]))
                   ELSE Null] :
     j \in {EntryCodeTok(line)}} : TRUE

\* /-\s*$/.test(hoursRaw)
hoursIsNegative(hoursRaw) == hoursRaw # <<>> /\ hoursRaw[Len(hoursRaw)] = "-"

\* /[A-Z]\d?\s+\d{3}\s+[A-Z]{2}\d{2}[A-Z][A-Z0-9]/.test(line)
looksLikeEntry(line) ==
  LET toks == line.toks
  IN \E k \in 1..(Len(toks) - 2) :
       LET t == toks[k]
           n == Len(t)
       IN /\ \/ IsUpper(t[n])
             \/ n >= 2 /\ IsDigit(t[n]) /\ IsUpper(t[n - 1])
          /\ IsPayId(toks[k + 1])
          /\ HasCertPrefix(toks[k + 2])

\* a test for any number, whole numbers included: /\d+/.test(line)
hasHoursWhole(line) ==
  \E k \in 1..Len(line.toks) :
    \E p \in 1..Len(line.toks[k]) : IsDigit(line.toks[k][p])

\* /\d+\.\d{1,2}/.test(line)
hasHours(line) ==
  \E k \in 1..Len(line.toks) :
    LET t == line.toks[k]
    IN \E p \in 1..(Len(t) - 2) :
         IsDigit(t[p]) /\ t[p + 1] = "." /\ IsDigit(t[p + 2])

\* " (ignored negative hours)"
NegativeNote ==
  <<" ","(","i","g","n","o","r","e","d"," ","n","e","g","a","t","i","v","e",
    " ","h","o","u","r","s",")">>

\* ------------------------------------------------------ cost code normalizers
\* value.toString().split('.')[0]: the text before the first point
BeforePoint(s) ==
  LET P == {p \in 1..Len(s) : s[p] = "."}
  IN IF P = {} THEN s
     ELSE SubSeq(s, 1, (CHOOSE p \in P : \A q \in P : p <= q) - 1)

IsDigitOrHyphen(c) == IsDigit(c) \/ c = "-"

\* normalized.includes('-')
HasHyphen(s) == \E p \in 1..Len(s) : s[p] = "-"

\* normalized.slice(0, 2) + '-' + normalized.slice(2)
HyphenAfterTwo(s) == SubSeq(s, 1, 2) \o <<"-">> \o SubSeq(s, 3, Len(s))

\* a normalizer that puts the hyphen in without looking for one
normalizeCostCodeRehyphenates(value) ==
  IF value = Null THEN Null
  ELSE LET kept == SelectSeq(BeforePoint(value), IsDigitOrHyphen)
           padded == IF kept # <<>> /\ ~HasHyphen(kept) /\ Len(kept) = 4
                        /\ kept[1] # "0"
                     THEN <<"0">> \o kept ELSE kept
           split == IF padded # <<>> /\ Len(padded) >= 4
                    THEN HyphenAfterTwo(padded) ELSE padded
       IN IF split = <<>> THEN Null ELSE split

\* normalizeCostCode of the record store: keeps digits and hyphens, pads a
\* bare 4-digit code that does not start with 0, splits a bare code of 4 or
\* more digits after its second digit
normalizeCostCode(value) ==
  IF value = Null THEN Null
  ELSE LET kept == SelectSeq(BeforePoint(value), IsDigitOrHyphen)
           padded == IF kept # <<>> /\ ~HasHyphen(kept) /\ Len(kept) = 4
                        /\ kept[1] # "0"
                     THEN <<"0">> \o kept ELSE kept
           split == IF padded # <<>> /\ ~HasHyphen(padded) /\ Len(padded) >= 4
                    THEN HyphenAfterTwo(padded) ELSE padded
       IN IF split = <<>> THEN Null ELSE split

\* normalizeCostCode of src/database.js: the same, but a bare code of 4 or 5
\* digits is padded
normalizeCostCode_database_js(value) ==
  IF value = Null THEN Null
  ELSE LET kept == SelectSeq(BeforePoint(value), IsDigitOrHyphen)
           padded == IF kept # <<>> /\ ~HasHyphen(kept)
                        /\ Len(kept) >= 4 /\ Len(kept) <= 5
                        /\ kept[1] # "0"
                     THEN <<"0">> \o kept ELSE kept
           split == IF padded # <<>> /\ ~HasHyphen(padded) /\ Len(padded) >= 4
                    THEN HyphenAfterTwo(padded) ELSE padded
       IN IF split = <<>> THEN Null ELSE split

\* normalizeCostCode of the server: the digits before the first point
normalizeCostCode_server(value) ==
  IF value = Null THEN Null
  ELSE LET numeric == SelectSeq(BeforePoint(value), IsDigit)
       IN IF numeric = <<>> THEN Null ELSE numeric

\* ------------------------------------------------- the lines of the model
\* ""
LineEmpty ==
  [lead |-> FALSE, wide |-> FALSE, toks |-> <<>>]

\* "4086   Arthur E Stefanick Jr   10/24/23"
LineHeaderA ==
  [lead |-> FALSE, wide |-> TRUE, toks |-> <<
      <<"4","0","8","6">>,
      <<"A","r","t","h","u","r">>,
      <<"E">>,
      <<"S","t","e","f","a","n","i","c","k">>,
      <<"J","r">>,
      <<"1","0","/","2","4","/","2","3">>>>]

\* "0018 Bo O'Neil 05/01/75"
LineHeaderB ==
  [lead |-> FALSE, wide |-> FALSE, toks |-> <<
      <<"0","0","1","8">>,
      <<"B","o">>,
      <<"O","'","N","e","i","l">>,
      <<"0","5","/","0","1","/","7","5">>>>]

\* " 11/07/23"
LineDate ==
  [lead |-> TRUE, wide |-> FALSE, toks |-> <<
      <<"1","1","/","0","7","/","2","3">>>>]

\* "Total Hours 40.00 1,267.20"
LineTotal ==
  [lead |-> FALSE, wide |-> FALSE, toks |-> <<
      <<"T","o","t","a","l">>,
      <<"H","o","u","r","s">>,
      <<"4","0",".","0","0">>,
      <<"1",",","2","6","7",".","2","0">>>>]

\* " Grand Totals 120.50 3,817.44"
LineGrand ==
  [lead |-> TRUE, wide |-> FALSE, toks |-> <<
      <<"G","r","a","n","d">>,
      <<"T","o","t","a","l","s">>,
      <<"1","2","0",".","5","0">>,
      <<"3",",","8","1","7",".","4","4">>>>]

\* "   J   841   TA01J1   0   2.50   31.68000   79.20   Cuy Fal Bld 1   09-170"
LineEntry ==
  [lead |-> TRUE, wide |-> TRUE, toks |-> <<
      <<"J">>,
      <<"8","4","1">>,
      <<"T","A","0","1","J","1">>,
      <<"0">>,
      <<"2",".","5","0">>,
      <<"3","1",".","6","8","0","0","0">>,
      <<"7","9",".","2","0">>,
      <<"C","u","y">>,
      <<"F","a","l">>,
      <<"B","l","d">>,
      <<"1">>,
      <<"0","9","-","1","7","0">>>>]

\* " F 841 CA01AO 0 8.00 31.68000 253.44 Cuy Fal"
LineEntryNoCode ==
  [lead |-> TRUE, wide |-> FALSE, toks |-> <<
      <<"F">>,
      <<"8","4","1">>,
      <<"C","A","0","1","A","O">>,
      <<"0">>,
      <<"8",".","0","0">>,
      <<"3","1",".","6","8","0","0","0">>,
      <<"2","5","3",".","4","4">>,
      <<"C","u","y">>,
      <<"F","a","l">>>>]

\* " J 841 TA01J1 0 2.50- 31.68000 79.20 Cuy Fal 09-170"
LineEntryNeg ==
  [lead |-> TRUE, wide |-> FALSE, toks |-> <<
      <<"J">>,
      <<"8","4","1">>,
      <<"T","A","0","1","J","1">>,
      <<"0">>,
      <<"2",".","5","0","-">>,
      <<"3","1",".","6","8","0","0","0">>,
      <<"7","9",".","2","0">>,
      <<"C","u","y">>,
      <<"F","a","l">>,
      <<"0","9","-","1","7","0">>>>]

\* " J 841 TA01J1 0 4.00 31.68000 126.72 Total Hours Adj 1-400"
LineEntryTotal ==
  [lead |-> TRUE, wide |-> FALSE, toks |-> <<
      <<"J">>,
      <<"8","4","1">>,
      <<"T","A","0","1","J","1">>,
      <<"0">>,
      <<"4",".","0","0">>,
      <<"3","1",".","6","8","0","0","0">>,
      <<"1","2","6",".","7","2">>,
      <<"T","o","t","a","l">>,
      <<"H","o","u","r","s">>,
      <<"A","d","j">>,
      <<"1","-","4","0","0">>>>]

\* " A1 841 TA01J1 0 8 31 248 Shop 01-4000"
LineEntryInt ==
  [lead |-> TRUE, wide |-> FALSE, toks |-> <<
      <<"A","1">>,
      <<"8","4","1">>,
      <<"T","A","0","1","J","1">>,
      <<"0">>,
      <<"8">>,
      <<"3","1">>,
      <<"2","4","8">>,
      <<"S","h","o","p">>,
      <<"0","1","-","4","0","0","0">>>>]

\* "   F   841   TA01J1   0   1.25   31.68000   39.60   1-400"
LineEntryBare ==
  [lead |-> TRUE, wide |-> TRUE, toks |-> <<
      <<"F">>,
      <<"8","4","1">>,
      <<"T","A","0","1","J","1">>,
      <<"0">>,
      <<"1",".","2","5">>,
      <<"3","1",".","6","8","0","0","0">>,
      <<"3","9",".","6","0">>,
      <<"1","-","4","0","0">>>>]

\* "J 841 TA01J1 2.50"
LineLooks ==
  [lead |-> FALSE, wide |-> FALSE, toks |-> <<
      <<"J">>,
      <<"8","4","1">>,
      <<"T","A","0","1","J","1">>,
      <<"2",".","5","0">>>>]

\* "Page 1 of 3"
LineNoise ==
  [lead |-> FALSE, wide |-> FALSE, toks |-> <<
      <<"P","a","g","e">>,
      <<"1">>,
      <<"o","f">>,
      <<"3">>>>]


\* the documents the parser is run on: sequences of these lines
LineCatalogue ==
  {LineEmpty, LineHeaderA, LineHeaderB, LineDate, LineTotal, LineGrand,
   LineEntry, LineEntryNoCode, LineEntryNeg, LineEntryTotal, LineEntryInt,
   LineEntryBare, LineLooks, LineNoise}

Documents == UNION {[1..n -> LineCatalogue] : n \in 0..MaxLines}


\* ------------------------------------------------------------------ state
VARIABLES
  \* parsePayrollPDF: data.text.split('\n'), the loop index (from 1), the
  \* ParseContext and the three result lists
  lines, i, currentEmployee, currentUnionLocal, currentDate,
  entries, ignoredLines, detectedTotals,
  \* the returned summary ({} is null) and where the call stands
  parsedHours, detectedTotalHours, parsePc,
  \* history: the line each entry / ignored line / detected total came from
  entryFrom, ignoredFrom, totalFrom,
  \* normalizeCostCode on its own: the raw value, the key each copy of the
  \* store gives it, and the key of that key
  ncInput, ncOnce, ncOnceDb, ncTwice, ncTwiceDb, ncPc,
  \* the record store: entries.json, budgets.json and areas.json, and the
  \* answer to the last request
  storeEntries, budgets, areas, response,
  \* how many records the run at hand lets entries.json and budgets.json hold
  capacity,
  \* history: the costCodeHours each budget record was uploaded with
  budgetRaw,
  \* the requests in flight when handlers are followed await by await, and
  \* history: the number of writeJSON calls made so far
  requests, writes,
  \* convertDate on its own: the MM/DD/YY string, the ISO date it gives, and
  \* where the call stands
  dateInput, dateOutput, datePc,
  \* projects.json, uploads.json and code_mappings.json, the upload requests
  \* in flight, and history: the upload requests answered so far
  storeProjects, storeUploads, codeMappings, uploadReqs, answered

parseVars ==
  <<lines, i, currentEmployee, currentUnionLocal, currentDate,
    entries, ignoredLines, detectedTotals,
    parsedHours, detectedTotalHours, parsePc,
    entryFrom, ignoredFrom, totalFrom>>

normVars == <<ncInput, ncOnce, ncOnceDb, ncTwice, ncTwiceDb, ncPc>>

storeVars == <<storeEntries, budgets, areas, response, capacity, budgetRaw>>

concVars == <<requests, writes>>

dateVars == <<dateInput, dateOutput, datePc>>

projectVars == <<storeProjects, storeUploads, codeMappings, uploadReqs, answered>>

vars == <<parseVars, normVars, storeVars, concVars, dateVars, projectVars>>

\* what one part of the program leaves alone
notParseVars == <<normVars, storeVars, concVars, dateVars, projectVars>>
notNormVars == <<parseVars, storeVars, concVars, dateVars, projectVars>>
notStoreVars == <<parseVars, normVars, concVars, dateVars, projectVars>>
notRequestVars == <<parseVars, normVars, dateVars, projectVars>>
notDateVars == <<parseVars, normVars, storeVars, concVars, projectVars>>
notProjectVars == <<parseVars, normVars, concVars, dateVars>>
\* ------------------------------------------- pdfParser.js: parsePayrollPDF
ParseInit ==
  /\ lines \in Documents
  /\ i = 1
  /\ currentEmployee = Null
  /\ currentUnionLocal = Null
  /\ currentDate = Null
  /\ entries = <<>>
  /\ ignoredLines = <<>>
  /\ detectedTotals = <<>>
  /\ parsedHours = 0
  /\ detectedTotalHours = {}
  /\ parsePc = "scan"
  /\ entryFrom = <<>>
  /\ ignoredFrom = <<>>
  /\ totalFrom = <<>>

ParseIdle ==
  /\ lines = <<>>
  /\ i = 1
  /\ currentEmployee = Null
  /\ currentUnionLocal = Null
  /\ currentDate = Null
  /\ entries = <<>>
  /\ ignoredLines = <<>>
  /\ detectedTotals = <<>>
  /\ parsedHours = 0
  /\ detectedTotalHours = {}
  /\ parsePc = "idle"
  /\ entryFrom = <<>>
  /\ ignoredFrom = <<>>
  /\ totalFrom = <<>>

Scanning == parsePc = "scan" /\ i <= Len(lines)

\* if (!line) continue;
SkipEmptyLine ==
  /\ Scanning
  /\ IsEmptyLine(lines[i])
  /\ i' = i + 1
  /\ UNCHANGED <<lines, currentEmployee, currentUnionLocal, currentDate,
                 entries, ignoredLines, detectedTotals,
                 parsedHours, detectedTotalHours, parsePc,
                 entryFrom, ignoredFrom, totalFrom>>
  /\ UNCHANGED notParseVars

\* if (employeeMatch) { ...; continue; }
EmployeeHeader ==
  /\ Scanning
  /\ ~IsEmptyLine(lines[i])
  /\ employeeMatch(lines[i])
  /\ currentUnionLocal' = EmployeeParts(lines[i]).unionLocal
  /\ currentEmployee' = EmployeeParts(lines[i]).name
  /\ currentDate' = EmployeeParts(lines[i]).date
  /\ i' = i + 1
  /\ UNCHANGED <<lines, entries, ignoredLines, detectedTotals,
                 parsedHours, detectedTotalHours, parsePc,
                 entryFrom, ignoredFrom, totalFrom>>
  /\ UNCHANGED notParseVars

\* a standalone-date branch that forgets the assignment
StandaloneDateKeepsDate ==
  /\ Scanning
  /\ ~IsEmptyLine(lines[i])
  /\ ~employeeMatch(lines[i])
  /\ dateOnlyMatch(lines[i])
  /\ i' = i + 1
  /\ UNCHANGED <<lines, currentEmployee, currentUnionLocal, currentDate,
                 entries, ignoredLines, detectedTotals,
                 parsedHours, detectedTotalHours, parsePc,
                 entryFrom, ignoredFrom, totalFrom>>
  /\ UNCHANGED notParseVars

\* a standalone-date branch that starts a new, unnamed employee
StandaloneDateClearsEmployee ==
  /\ Scanning
  /\ ~IsEmptyLine(lines[i])
  /\ ~employeeMatch(lines[i])
  /\ dateOnlyMatch(lines[i])
  /\ currentDate' = lines[i].toks[1]
  /\ currentEmployee' = Null
  /\ i' = i + 1
  /\ UNCHANGED <<lines, currentUnionLocal,
                 entries, ignoredLines, detectedTotals,
                 parsedHours, detectedTotalHours, parsePc,
                 entryFrom, ignoredFrom, totalFrom>>
  /\ UNCHANGED notParseVars

\* if (dateOnlyMatch) { currentDate = dateOnlyMatch[1]; continue; }
StandaloneDate ==
  /\ Scanning
  /\ ~IsEmptyLine(lines[i])
  /\ ~employeeMatch(lines[i])
  /\ dateOnlyMatch(lines[i])
  /\ currentDate' = lines[i].toks[1]
  /\ i' = i + 1
  /\ UNCHANGED <<lines, currentEmployee, currentUnionLocal,
                 entries, ignoredLines, detectedTotals,
                 parsedHours, detectedTotalHours, parsePc,
                 entryFrom, ignoredFrom, totalFrom>>
  /\ UNCHANGED notParseVars

\* the reported total a line adds to detectedTotals: {} for none
ReportedTotal(line) ==
  IF IsTotalLine(line) /\ FirstNumber(line) # Null
       /\ parseNumber(FirstNumber(line)) > 0
  THEN {parseNumber(FirstNumber(line))}
  ELSE {}

\* the object pushed to entries for an entry line
MakeEntry(line, employee, unionLocal, date) ==
  CHOOSE entry \in
    {[employee_name |-> employee,
      pay_id |-> parts.payId,
      pay_class |-> parts.payClass,
      union_local |-> unionLocal,
      certified_class |-> parts.certifiedClass,
      date |-> convertDate(date),
      hours |-> IF hoursIsNegative(parts.hoursRaw) THEN 0
                ELSE parseNumber(parts.hoursRaw),
      rate |-> parseNumber(parts.rateRaw),
      cost_code |-> parts.costCode,
      job_description |-> parts.jobDescription] :
     parts \in {EntryParts(line)}} : TRUE

\* the rest of the loop body: the reported-total capture (which does not end
\* the iteration), then the entry patterns and the looks-like-an-entry check
ScanLine ==
  /\ Scanning
  /\ ~IsEmptyLine(lines[i])
  /\ ~employeeMatch(lines[i])
  /\ ~dateOnlyMatch(lines[i])
  /\ \E line \in {lines[i]} :
     \E total \in {ReportedTotal(line)} :
     \E isEntry \in {/\ (entryMatch(line) \/ entryNoCodeMatch(line))
                     /\ currentEmployee # Null /\ currentEmployee # <<>>
                     /\ currentDate # Null /\ currentDate # <<>>} :
     \E negative \in {isEntry /\ hoursIsNegative(EntryParts(line).hoursRaw)} :
     \E flagged \in {~isEntry /\ looksLikeEntry(line) /\ hasHours(line)} :
        /\ detectedTotals' =
             IF total = {} THEN detectedTotals
             ELSE Append(detectedTotals, CHOOSE t \in total : TRUE)
        /\ totalFrom' = IF total = {} THEN totalFrom ELSE Append(totalFrom, i)
        /\ entries' =
             IF isEntry /\ ~negative
             THEN Append(entries,
                         MakeEntry(line, currentEmployee, currentUnionLocal,
                                   currentDate))
             ELSE entries
        /\ entryFrom' = IF isEntry /\ ~negative THEN Append(entryFrom, i)
                        ELSE entryFrom
        /\ ignoredLines' =
             IF negative THEN Append(ignoredLines, TrimLine(line) \o NegativeNote)
             ELSE IF flagged THEN Append(ignoredLines, TrimLine(line))
             ELSE ignoredLines
        /\ ignoredFrom' = IF negative \/ flagged THEN Append(ignoredFrom, i)
                          ELSE ignoredFrom
  /\ i' = i + 1
  /\ UNCHANGED <<lines, currentEmployee, currentUnionLocal, currentDate,
                 parsedHours, detectedTotalHours, parsePc>>
  /\ UNCHANGED notParseVars

RECURSIVE SumHours(_)
SumHours(es) ==
  IF es = <<>> THEN 0
  ELSE SumHours(SubSeq(es, 1, Len(es) - 1)) + es[Len(es)].hours

\* a summary that folds detectedTotals with reduce and no initial value, which
\* raises a TypeError on a document without reported totals
SummarizeReduceNoInitial ==
  /\ parsePc = "scan"
  /\ i > Len(lines)
  /\ parsedHours' = IF detectedTotals = <<>> THEN parsedHours
                    ELSE SumHours(entries)
  /\ detectedTotalHours' =
       IF detectedTotals = <<>> THEN detectedTotalHours
       ELSE {CHOOSE m \in Range(detectedTotals) :
               \A t \in Range(detectedTotals) : m >= t}
  /\ parsePc' = IF detectedTotals = <<>> THEN "threw" ELSE "done"
  /\ UNCHANGED <<lines, i, currentEmployee, currentUnionLocal, currentDate,
                 entries, ignoredLines, detectedTotals,
                 entryFrom, ignoredFrom, totalFrom>>
  /\ UNCHANGED notParseVars

\* a summary that reports the total detected last
SummarizeLastTotal ==
  /\ parsePc = "scan"
  /\ i > Len(lines)
  /\ parsedHours' = SumHours(entries)
  /\ detectedTotalHours' =
       IF detectedTotals = <<>> THEN {}
       ELSE {detectedTotals[Len(detectedTotals)]}
  /\ parsePc' = "done"
  /\ UNCHANGED <<lines, i, currentEmployee, currentUnionLocal, currentDate,
                 entries, ignoredLines, detectedTotals,
                 entryFrom, ignoredFrom, totalFrom>>
  /\ UNCHANGED notParseVars

\* after the loop: parsedHours, detectedTotalHours and the return
Summarize ==
  /\ parsePc = "scan"
  /\ i > Len(lines)
  /\ parsedHours' = SumHours(entries)
  /\ detectedTotalHours' =
       IF detectedTotals = <<>> THEN {}
       ELSE {CHOOSE m \in Range(detectedTotals) :
               \A t \in Range(detectedTotals) : m >= t}
  /\ parsePc' = "done"
  /\ UNCHANGED <<lines, i, currentEmployee, currentUnionLocal, currentDate,
                 entries, ignoredLines, detectedTotals,
                 entryFrom, ignoredFrom, totalFrom>>
  /\ UNCHANGED notParseVars

NextParse ==
  \/ SkipEmptyLine
  \/ EmployeeHeader
  \/ StandaloneDate
  \/ ScanLine
  \/ Summarize

\* ---------------------------------------------- the normalizer on its own
\* the raw strings the normalizer is applied to: every string of at most
\* MaxCodeLen characters of CodeAlphabet, and the codes the documentation
\* names
CodeAlphabet == {"0", "1", "-", ".", "x"}

Code_1200 == <<"1","2","0","0">>
Code_09_170 == <<"0","9","-","1","7","0">>
Code_10240 == <<"1","0","2","4","0">>
Code_01_200 == <<"0","1","-","2","0","0">>
Code_10_240 == <<"1","0","-","2","4","0">>

RawCodeStrings ==
  UNION {[1..n -> CodeAlphabet] : n \in 0..MaxCodeLen}
    \cup {Code_1200, Code_09_170, Code_10240}

NormInit ==
  /\ ncInput \in RawCodeStrings \cup {Null}
  /\ ncOnce = Null
  /\ ncOnceDb = Null
  /\ ncTwice = Null
  /\ ncTwiceDb = Null
  /\ ncPc = "in"

NormIdle ==
  /\ ncInput = Null
  /\ ncOnce = Null
  /\ ncOnceDb = Null
  /\ ncTwice = Null
  /\ ncTwiceDb = Null
  /\ ncPc = "idle"

\* key = normalizeCostCode(raw), by either copy of the store
NormalizeOnce ==
  /\ ncPc = "in"
  /\ ncOnce' = normalizeCostCode(ncInput)
  /\ ncOnceDb' = normalizeCostCode_database_js(ncInput)
  /\ ncPc' = "once"
  /\ UNCHANGED <<ncInput, ncTwice, ncTwiceDb>>
  /\ UNCHANGED notNormVars

\* normalizeCostCode(key)
NormalizeTwice ==
  /\ ncPc = "once"
  /\ ncTwice' = normalizeCostCode(ncOnce)
  /\ ncTwiceDb' = normalizeCostCode_database_js(ncOnceDb)
  /\ ncPc' = "twice"
  /\ UNCHANGED <<ncInput, ncOnce, ncOnceDb>>
  /\ UNCHANGED notNormVars

NextNorm == NormalizeOnce \/ NormalizeTwice

\* ------------------------------------------------ convertDate on its own
\* the dates convertDate is given: the months and days of the reports at
\* hand, with every two-digit year
ReportMonths == {<<"1","0">>, <<"0","5">>, <<"0","1">>, <<"1","2">>}
ReportDays == {<<"2","4">>, <<"0","1">>, <<"3","1">>}
TwoDigits == {<<a, b>> : a \in Range(DigitSeq), b \in Range(DigitSeq)}

DateStrings ==
  {mm \o <<"/">> \o dd \o <<"/">> \o yy :
     mm \in ReportMonths, dd \in ReportDays, yy \in TwoDigits}

DateInit ==
  /\ dateInput \in DateStrings
  /\ dateOutput = Null
  /\ datePc = "in"

DateIdle ==
  /\ dateInput = Null
  /\ dateOutput = Null
  /\ datePc = "idle"

\* date: convertDate(currentDate)
ConvertDate ==
  /\ datePc = "in"
  /\ dateOutput' = convertDate(dateInput)
  /\ datePc' = "out"
  /\ UNCHANGED dateInput
  /\ UNCHANGED notDateVars

NextDate == ConvertDate

\* ------------------------------------------------------------ JS objects
\* an object is the sequence of its <<key, value>> pairs in the order
\* Object.keys gives them: canonical array indices first, ascending, then the
\* other keys in the order they were added
ObjKeys(o) == {o[k][1] : k \in 1..Len(o)}
ObjHas(o, key) == key \in ObjKeys(o)
ObjGet(o, key) == o[CHOOSE k \in 1..Len(o) : o[k][1] = key][2]

\* o[key] || 0
ObjGetOr0(o, key) == IF ObjHas(o, key) THEN ObjGet(o, key) ELSE 0

IsIndexKey(key) ==
  /\ key # <<>>
  /\ AllDigits(key)
  /\ (Len(key) = 1 \/ key[1] # "0")

\* o[key] = value
ObjPut(o, key, value) ==
  IF ObjHas(o, key)
  THEN [k \in 1..Len(o) |-> IF o[k][1] = key THEN <<key, value>> ELSE o[k]]
  ELSE IF IsIndexKey(key)
  THEN LET before == Cardinality({k \in 1..Len(o) :
                        IsIndexKey(o[k][1]) /\ DigitsVal(o[k][1]) < DigitsVal(key)})
       IN SubSeq(o, 1, before) \o <<<<key, value>>>> \o SubSeq(o, before + 1, Len(o))
  ELSE Append(o, <<key, value>>)

\* a.localeCompare(b) < 0 for strings of hyphens and digits: the hyphen
\* sorts before the digits, a proper prefix before its extensions
CollationSeq == <<"-","0","1","2","3","4","5","6","7","8","9">>
CollationRank(c) == CHOOSE k \in 1..Len(CollationSeq) : CollationSeq[k] = c

LocaleLess(a, b) ==
  \E p \in 1..(Len(b)) :
    /\ \A q \in 1..(p - 1) : q <= Len(a) /\ a[q] = b[q]
    /\ \/ p = Len(a) + 1
       \/ p <= Len(a) /\ CollationRank(a[p]) < CollationRank(b[p])

\* a.localeCompare(b) < 0 for labels of blanks, hyphens, points, apostrophes,
\* digits and letters: blank and punctuation sort before the digits, the
\* digits before the letters, a proper prefix before its extensions; two
\* labels that differ in case only have the lower-case letter first
LabelCollation == <<" ", "-", ".", "'">> \o DigitSeq \o LowerSeq
LabelRank(c) == CHOOSE k \in 1..Len(LabelCollation) : LabelCollation[k] = ToLower(c)

LabelLess(a, b) ==
  IF LowerStr(a) # LowerStr(b)
  THEN \E p \in 1..Len(b) :
         /\ \A q \in 1..(p - 1) : q <= Len(a) /\ ToLower(a[q]) = ToLower(b[q])
         /\ \/ p = Len(a) + 1
            \/ p <= Len(a) /\ LabelRank(a[p]) < LabelRank(b[p])
  ELSE \E p \in 1..Len(a) :
         /\ \A q \in 1..(p - 1) : a[q] = b[q]
         /\ IsLower(a[p]) /\ IsUpper(b[p])

\* the keys of a set in ascending localeCompare order
RECURSIVE SortKeys(_)
SortKeys(S) ==
  IF S = {} THEN <<>>
  ELSE LET m == CHOOSE x \in S : \A y \in S \ {x} : LocaleLess(x, y)
       IN <<m>> \o SortKeys(S \ {m})

\* ------------------------------------------------ the record store (JSON)
\* timeEntryQueries.createBatch: ids go on from the largest id in the file
NextEntryId(es) ==
  IF Len(es) > 0
  THEN (CHOOSE m \in {es[k].id : k \in 1..Len(es)} :
          \A k \in 1..Len(es) : m >= es[k].id) + 1
  ELSE 1

StoredEntry(data, id, project, upload) ==
  [id |-> id,
   project_id |-> project,
   upload_id |-> upload,
   employee_name |-> data.employee_name,
   pay_id |-> data.pay_id,
   pay_class |-> data.pay_class,
   union_local |-> data.union_local,
   certified_class |-> data.certified_class,
   date |-> data.date,
   hours |-> data.hours,
   rate |-> data.rate,
   cost_code |-> data.cost_code,
   job_description |-> data.job_description]

\* a batch insert that does not step nextId
createBatchNoIncrement(es, batch, project, upload) ==
  es \o [k \in 1..Len(batch) |->
           StoredEntry(batch[k], NextEntryId(es), project, upload)]

\* timeEntryQueries.createBatch: the new rows take the ids from nextId on
createBatch(es, batch, project, upload) ==
  es \o [k \in 1..Len(batch) |->
           StoredEntry(batch[k], NextEntryId(es) + k - 1, project, upload)]

\* entries.filter(e => e.project_id === parseInt(project_id))
ProjectEntries(es, project) ==
  SelectSeq(es, LAMBDA e : e.project_id = project)

\* timeEntryQueries.getCostCodeTotals: hours by normalized cost code; an
\* entry without a cost code, or whose code normalizes to nothing, is left out
RECURSIVE CostCodeTotalsOf(_)
CostCodeTotalsOf(es) ==
  IF es = <<>> THEN <<>>
  ELSE LET before == CostCodeTotalsOf(SubSeq(es, 1, Len(es) - 1))
           entry == es[Len(es)]
           code == normalizeCostCode(entry.cost_code)
       IN IF entry.cost_code = Null \/ entry.cost_code = <<>> \/ code = Null
          THEN before
          ELSE ObjPut(before, code, ObjGetOr0(before, code) + entry.hours)

\* totals that keep the entries without a usable code, under 'Unspecified'
RECURSIVE TotalsWithUnspecified(_)
TotalsWithUnspecified(es) ==
  IF es = <<>> THEN <<>>
  ELSE LET before == TotalsWithUnspecified(SubSeq(es, 1, Len(es) - 1))
           entry == es[Len(es)]
           code == IF entry.cost_code = Null \/ entry.cost_code = <<>>
                      \/ normalizeCostCode(entry.cost_code) = Null
                   THEN <<"U","n","s","p","e","c","i","f","i","e","d">>
                   ELSE normalizeCostCode(entry.cost_code)
       IN ObjPut(before, code, ObjGetOr0(before, code) + entry.hours)

CostCodeTotalsUnspecified(es, project) ==
  TotalsWithUnspecified(ProjectEntries(es, project))

getCostCodeTotals(es, project) == CostCodeTotalsOf(ProjectEntries(es, project))

\* the same function in database.js, with the normalizer of that file
RECURSIVE CostCodeTotalsOf_database_js(_)
CostCodeTotalsOf_database_js(es) ==
  IF es = <<>> THEN <<>>
  ELSE LET before == CostCodeTotalsOf_database_js(SubSeq(es, 1, Len(es) - 1))
           entry == es[Len(es)]
           code == normalizeCostCode_database_js(entry.cost_code)
       IN IF entry.cost_code = Null \/ entry.cost_code = <<>> \/ code = Null
          THEN before
          ELSE ObjPut(before, code, ObjGetOr0(before, code) + entry.hours)

getCostCodeTotals_database_js(es, project) ==
  CostCodeTotalsOf_database_js(ProjectEntries(es, project))

\* the comparator of timeEntryQueries.getByProject: by date (ISO dates order
\* as their digits do), then by employee_name.localeCompare
EntryBefore(a, b) ==
  \/ LocaleLess(a.date, b.date)
  \/ a.date = b.date /\ LabelLess(a.employee_name, b.employee_name)

\* Array.prototype.sort with that comparator (stable)
RECURSIVE SortEntries(_)
SortEntries(es) ==
  IF es = <<>> THEN <<>>
  ELSE LET sorted == SortEntries(SubSeq(es, 1, Len(es) - 1))
           e == es[Len(es)]
           keep == Cardinality({k \in 1..Len(sorted) : ~EntryBefore(e, sorted[k])})
       IN SubSeq(sorted, 1, keep) \o <<e>> \o SubSeq(sorted, keep + 1, Len(sorted))

\* timeEntryQueries.getByProject
EntriesByProject(es, project) == SortEntries(ProjectEntries(es, project))

\* budgetQueries.create
NextBudgetId(bs) ==
  IF Len(bs) > 0
  THEN (CHOOSE m \in {bs[k].id : k \in 1..Len(bs)} :
          \A k \in 1..Len(bs) : m >= bs[k].id) + 1
  ELSE 1

BudgetRecord(bs, project, cost_code_hours, area_hours, area_cost_code_hours, when) ==
  [id |-> NextBudgetId(bs),
   project_id |-> project,
   cost_code_hours |-> cost_code_hours,
   area_hours |-> area_hours,
   area_cost_code_hours |-> area_cost_code_hours,
   upload_date |-> when]

\* Array.prototype.sort((a, b) => new Date(b.upload_date) - new Date(a.upload_date)):
\* newest first, records of one instant keep their order in the file
RECURSIVE SortNewestFirst(_)
SortNewestFirst(bs) ==
  IF bs = <<>> THEN <<>>
  ELSE LET sorted == SortNewestFirst(SubSeq(bs, 1, Len(bs) - 1))
           b == bs[Len(bs)]
           keep == Cardinality({k \in 1..Len(sorted) :
                                  sorted[k].upload_date >= b.upload_date})
       IN SubSeq(sorted, 1, keep) \o <<b>> \o SubSeq(sorted, keep + 1, Len(sorted))

\* budgetQueries.getByProject
BudgetsByProject(bs, project) ==
  SortNewestFirst(SelectSeq(bs, LAMBDA b : b.project_id = project))

\* the instant of a write: not before the newest record of the file
LatestDate(bs) ==
  IF bs = <<>> THEN 0
  ELSE CHOOSE m \in {bs[k].upload_date : k \in 1..Len(bs)} :
         \A k \in 1..Len(bs) : m >= bs[k].upload_date

\* ------------------------------------------------------ server: comparison
\* alignBudgetCostCodes of the first server: the hours of a budget code go to
\* the longest actual code that is a prefix of it
RECURSIVE AlignToActualPrefix(_, _)
AlignToActualPrefix(budgetHours, actualTotals) ==
  IF budgetHours = <<>> THEN <<>>
  ELSE LET aligned == AlignToActualPrefix(SubSeq(budgetHours, 1, Len(budgetHours) - 1),
                                          actualTotals)
           code == budgetHours[Len(budgetHours)][1]
           hours == budgetHours[Len(budgetHours)][2]
           Match == {a \in ObjKeys(actualTotals) : StartsWith(code, a)}
           target == IF Match = {} THEN code
                     ELSE CHOOSE a \in Match : \A x \in Match : Len(a) >= Len(x)
       IN IF code = <<>> THEN aligned
          ELSE ObjPut(aligned, target, ObjGetOr0(aligned, target) + hours)

\* alignBudgetCostCodes: the budget hours under their own codes (an empty
\* code is skipped)
RECURSIVE alignBudgetCostCodes(_, _)
alignBudgetCostCodes(budgetHours, actualTotals) ==
  IF budgetHours = <<>> THEN <<>>
  ELSE LET aligned == alignBudgetCostCodes(SubSeq(budgetHours, 1, Len(budgetHours) - 1),
                                           actualTotals)
           code == budgetHours[Len(budgetHours)][1]
           hours == budgetHours[Len(budgetHours)][2]
       IN IF code = <<>> THEN aligned
          ELSE ObjPut(aligned, code, ObjGetOr0(aligned, code) + hours)

\* one row of the comparison; variance_percent is {} for null, else the
\* quotient (variance / budget) * 100 kept as its two operands
ComparisonRow(code, budget, actual) ==
  [cost_code |-> code,
   budget_hours |-> budget,
   actual_hours |-> actual,
   variance_hours |-> actual - budget,
   variance_percent |-> IF budget > 0
                        THEN {[variance |-> actual - budget, budget |-> budget]}
                        ELSE {}]

\* buildBudgetComparison(projectId, latestBudget): given is {} when the
\* caller passes no budget, else {cost_code_hours of the one it passes}
buildBudgetComparison(bs, es, project, given) ==
  LET budgetUploads == BudgetsByProject(bs, project)
      actualTotals == getCostCodeTotals(es, project)
      budgetHours == IF given # {} THEN CHOOSE h \in given : TRUE
                     ELSE IF budgetUploads # <<>> THEN budgetUploads[1].cost_code_hours
                     ELSE <<>>
      alignedBudget == alignBudgetCostCodes(budgetHours, actualTotals)
      allCodes == SortKeys(ObjKeys(alignedBudget) \cup ObjKeys(actualTotals))
  IN [comparison |->
        [k \in 1..Len(allCodes) |->
           ComparisonRow(allCodes[k],
                         ObjGetOr0(alignedBudget, allCodes[k]),
                         ObjGetOr0(actualTotals, allCodes[k]))],
      budgetHours |-> budgetHours,
      latestBudget |-> IF budgetUploads # <<>> THEN {budgetUploads[1]} ELSE {}]

\* ------------------------------------------------------- job / area labels
Str_unspecified == <<"u","n","s","p","e","c","i","f","i","e","d">>
Str_Unspecified == <<"U","n","s","p","e","c","i","f","i","e","d">>
Str_Adjustment == <<"A","d","j","u","s","t","m","e","n","t">>
Str_Budget == <<"B","u","d","g","e","t">>

\* String.prototype.trim
RECURSIVE TrimStart(_)
TrimStart(s) == IF s # <<>> /\ s[1] = " " THEN TrimStart(Tail(s)) ELSE s

RECURSIVE TrimEnd(_)
TrimEnd(s) ==
  IF s # <<>> /\ s[Len(s)] = " " THEN TrimEnd(SubSeq(s, 1, Len(s) - 1)) ELSE s

TrimStr(s) == TrimEnd(TrimStart(s))

\* normalizeJobLabel: null, undefined and "" give 'unspecified', any other
\* value is trimmed and lower-cased (a blank-only label gives "")
normalizeJobLabel(value) ==
  IF value = Null \/ value = <<>> THEN Str_unspecified
  ELSE LowerStr(TrimStr(value))

\* { ...a, ...b }
RECURSIVE ObjSpread(_, _)
ObjSpread(a, b) ==
  IF b = <<>> THEN a
  ELSE LET before == ObjSpread(a, SubSeq(b, 1, Len(b) - 1))
       IN ObjPut(before, b[Len(b)][1], b[Len(b)][2])

\* timeEntryQueries.getJobTotals: hours and first label by normalized job
\* label; an entry whose label normalizes to "" is left out
RECURSIVE JobTotalsOf(_)
JobTotalsOf(es) ==
  IF es = <<>> THEN [totals |-> <<>>, labels |-> <<>>]
  ELSE LET before == JobTotalsOf(SubSeq(es, 1, Len(es) - 1))
           entry == es[Len(es)]
           key == normalizeJobLabel(entry.job_description)
       IN IF key = <<>> THEN before
          ELSE [totals |-> ObjPut(before.totals, key,
                                  ObjGetOr0(before.totals, key) + entry.hours),
                labels |-> IF ~ObjHas(before.labels, key)
                              /\ entry.job_description \notin {Null, <<>>}
                           THEN ObjPut(before.labels, key, entry.job_description)
                           ELSE before.labels]

getJobTotals(es, project) == JobTotalsOf(ProjectEntries(es, project))

\* timeEntryQueries.getJobCostCodeTotals: per normalized job label the hours
\* by normalized cost code ('Unspecified' when there is none) and their total
RECURSIVE JobCostCodeTotalsOf(_)
JobCostCodeTotalsOf(es) ==
  IF es = <<>> THEN <<>>
  ELSE LET result == JobCostCodeTotalsOf(SubSeq(es, 1, Len(es) - 1))
           entry == es[Len(es)]
           jobKey == normalizeJobLabel(entry.job_description)
           normalized == IF entry.cost_code = Null THEN Null
                         ELSE normalizeCostCode(entry.cost_code)
           costCode == IF normalized = Null THEN Str_Unspecified ELSE normalized
           old == IF ObjHas(result, jobKey) THEN ObjGet(result, jobKey)
                  ELSE [label |-> IF entry.job_description \in {Null, <<>>}
                                  THEN jobKey ELSE entry.job_description,
                        costCodes |-> <<>>,
                        total |-> 0]
       IN IF jobKey = <<>> THEN result
          ELSE ObjPut(result, jobKey,
                      [label |-> old.label,
                       costCodes |-> ObjPut(old.costCodes, costCode,
                                            ObjGetOr0(old.costCodes, costCode)
                                              + entry.hours),
                       total |-> old.total + entry.hours])

getJobCostCodeTotals(es, project) == JobCostCodeTotalsOf(ProjectEntries(es, project))

\* ------------------------------------------------------- areas.json
EmptyAreaConfig(project) ==
  [project_id |-> project,
   mappings |-> <<>>,
   adjustments |-> [budget |-> <<>>, actual |-> <<>>]]

\* areaQueries.getByProject
AreaConfigOf(as, project) ==
  IF \E k \in 1..Len(as) : as[k].project_id = project
  THEN as[CHOOSE k \in 1..Len(as) :
            /\ as[k].project_id = project
            /\ \A j \in 1..(k - 1) : as[j].project_id # project]
  ELSE EmptyAreaConfig(project)

\* the write at the end of saveMappings and saveAdjustments: the first
\* configuration of the project is replaced, a new one is pushed
PutAreaConfig(as, existing) ==
  IF \E k \in 1..Len(as) : as[k].project_id = existing.project_id
  THEN LET index == CHOOSE k \in 1..Len(as) :
                      /\ as[k].project_id = existing.project_id
                      /\ \A j \in 1..(k - 1) : as[j].project_id # existing.project_id
       IN [as EXCEPT ![index] = existing]
  ELSE Append(as, existing)

\* a save that stores the mappings given in place of the existing ones
saveMappingsReplace(as, project, mappings) ==
  PutAreaConfig(as, [AreaConfigOf(as, project) EXCEPT !.mappings = mappings])

\* areaQueries.saveMappings
saveMappings(as, project, mappings) ==
  PutAreaConfig(as, [AreaConfigOf(as, project) EXCEPT
                       !.mappings = ObjSpread(@, mappings)])

\* areaQueries.saveAdjustments
saveAdjustments(as, project, budgetAdjustments, actualAdjustments) ==
  PutAreaConfig(as, [AreaConfigOf(as, project) EXCEPT
                       !.adjustments = [budget |-> ObjSpread(@.budget, budgetAdjustments),
                                        actual |-> ObjSpread(@.actual, actualAdjustments)]])

\* ----------------------------------------------- server: area comparison
\* budgetAreas: the area_hours of the budget with their normalized keys,
\* without the labels that normalize to ""
RECURSIVE BudgetAreasOf(_)
BudgetAreasOf(budgetAreasRaw) ==
  IF budgetAreasRaw = <<>> THEN <<>>
  ELSE LET before == BudgetAreasOf(SubSeq(budgetAreasRaw, 1, Len(budgetAreasRaw) - 1))
           pair == budgetAreasRaw[Len(budgetAreasRaw)]
           area == [key |-> normalizeJobLabel(pair[1]), label |-> pair[1],
                    hours |-> pair[2]]
       IN IF area.key = <<>> THEN before ELSE Append(before, area)

EmptyBreakdown == [costCodes |-> <<>>, total |-> 0]

BreakdownOf(aggregated, key) ==
  IF ObjHas(aggregated, key) THEN ObjGet(aggregated, key) ELSE EmptyBreakdown

\* aggregated[key].costCodes[code] += hours; aggregated[key].total += hours
AddCode(aggregated, key, code, hours) ==
  LET old == BreakdownOf(aggregated, key)
  IN ObjPut(aggregated, key,
            [costCodes |-> ObjPut(old.costCodes, code,
                                  ObjGetOr0(old.costCodes, code) + hours),
             total |-> old.total + hours])

\* the inner loop over the actual codes of one job: code || 'Unspecified'
RECURSIVE AddActualCodes(_, _, _)
AddActualCodes(aggregated, key, codes) ==
  IF codes = <<>> THEN aggregated
  ELSE LET pair == codes[Len(codes)]
           normalizedCode == IF pair[1] = <<>> THEN Str_Unspecified ELSE pair[1]
       IN AddCode(AddActualCodes(aggregated, key, SubSeq(codes, 1, Len(codes) - 1)),
                  key, normalizedCode, pair[2])

\* actualCostCodesAggregated before the adjustments
RECURSIVE ActualCostCodes(_)
ActualCostCodes(jobCostCodes) ==
  IF jobCostCodes = <<>> THEN <<>>
  ELSE LET before == ActualCostCodes(SubSeq(jobCostCodes, 1, Len(jobCostCodes) - 1))
           pair == jobCostCodes[Len(jobCostCodes)]
           normalized == normalizeJobLabel(pair[1])
       IN IF normalized = <<>> THEN before
          ELSE AddActualCodes(ObjPut(before, normalized, BreakdownOf(before, normalized)),
                              normalized, pair[2].costCodes)

\* mappings[key] || (actualTotals[key] !== undefined ? key : null); Null for
\* null
MappedKey(mappings, actualTotals, key) ==
  IF ObjHas(mappings, key) /\ ObjGet(mappings, key) \notin {Null, <<>>}
  THEN ObjGet(mappings, key)
  ELSE IF ObjHas(actualTotals, key) THEN key
  ELSE Null

\* a target key that takes no notice of the mappings
TargetKeyUnmapped(mappings, actualTotals, key) == key

\* mappedKey || key
TargetKey(mappings, actualTotals, key) ==
  IF MappedKey(mappings, actualTotals, key) \in {Null, <<>>} THEN key
  ELSE MappedKey(mappings, actualTotals, key)

\* normalizeCostCode(code) || code || 'Unspecified'
BudgetCodeSpelling(code) ==
  IF normalizeCostCode_server(code) # Null THEN normalizeCostCode_server(code)
  ELSE IF code # <<>> THEN code
  ELSE Str_Unspecified

RECURSIVE AddBudgetCodes(_, _, _)
AddBudgetCodes(aggregated, key, codes) ==
  IF codes = <<>> THEN aggregated
  ELSE LET pair == codes[Len(codes)]
       IN AddCode(AddBudgetCodes(aggregated, key, SubSeq(codes, 1, Len(codes) - 1)),
                  key, BudgetCodeSpelling(pair[1]), pair[2])

\* budgetCostCodesAggregated before the adjustments
RECURSIVE BudgetCostCodes(_, _, _)
BudgetCostCodes(budgetCostCodeAreas, mappings, actualTotals) ==
  IF budgetCostCodeAreas = <<>> THEN <<>>
  ELSE LET before == BudgetCostCodes(SubSeq(budgetCostCodeAreas, 1,
                                            Len(budgetCostCodeAreas) - 1),
                                     mappings, actualTotals)
           pair == budgetCostCodeAreas[Len(budgetCostCodeAreas)]
           normalizedArea == normalizeJobLabel(pair[1])
           targetKey == TargetKey(mappings, actualTotals, normalizedArea)
       IN IF normalizedArea = <<>> THEN before
          ELSE AddBudgetCodes(ObjPut(before, targetKey, BreakdownOf(before, targetKey)),
                              targetKey, pair[2])

\* the loop over budgetAreas: hours by target key, and the label of a target
\* key that has none yet
RECURSIVE BudgetByArea(_, _, _, _)
BudgetByArea(budgetAreas, mappings, actualTotals, actualLabels) ==
  IF budgetAreas = <<>> THEN [budgetAggregated |-> <<>>, labelMap |-> actualLabels]
  ELSE LET before == BudgetByArea(SubSeq(budgetAreas, 1, Len(budgetAreas) - 1),
                                  mappings, actualTotals, actualLabels)
           area == budgetAreas[Len(budgetAreas)]
           mappedKey == MappedKey(mappings, actualTotals, area.key)
           targetKey == TargetKey(mappings, actualTotals, area.key)
       IN [budgetAggregated |->
             ObjPut(before.budgetAggregated, targetKey,
                    ObjGetOr0(before.budgetAggregated, targetKey) + area.hours),
           labelMap |->
             IF ObjHas(before.labelMap, targetKey)
                /\ ObjGet(before.labelMap, targetKey) # <<>>
             THEN before.labelMap
             ELSE ObjPut(before.labelMap, targetKey,
                         IF mappedKey \notin {Null, <<>>}
                            /\ ObjHas(actualLabels, mappedKey)
                         THEN ObjGet(actualLabels, mappedKey)
                         ELSE area.label)]

\* a loop over one side of the adjustments: hours added to the normalized key
\* in the area totals and, as code 'Adjustment', in the breakdown; the label
\* of a key that has none yet is the key as typed
RECURSIVE Adjusted(_, _)
Adjusted(start, adjustments) ==
  IF adjustments = <<>> THEN start
  ELSE LET before == Adjusted(start, SubSeq(adjustments, 1, Len(adjustments) - 1))
           pair == adjustments[Len(adjustments)]
           normalized == normalizeJobLabel(pair[1])
       IN [aggregated |-> ObjPut(before.aggregated, normalized,
                                 ObjGetOr0(before.aggregated, normalized) + pair[2]),
           labelMap |-> IF ObjHas(before.labelMap, normalized)
                           /\ ObjGet(before.labelMap, normalized) # <<>>
                        THEN before.labelMap
                        ELSE ObjPut(before.labelMap, normalized, pair[1]),
           costCodes |-> AddCode(before.costCodes, normalized, Str_Adjustment, pair[2])]

\* the keys of two objects in the order of new Set([...keys(a), ...keys(b)])
RECURSIVE KeysInOrder(_, _)
KeysInOrder(a, b) ==
  IF b = <<>> THEN [k \in 1..Len(a) |-> a[k][1]]
  ELSE LET before == KeysInOrder(a, SubSeq(b, 1, Len(b) - 1))
           key == b[Len(b)][1]
       IN IF key \in Range(before) THEN before ELSE Append(before, key)

\* one row of the area comparison
AreaRow(key, labelMap, budget, actual) ==
  [key |-> key,
   area |-> IF ObjHas(labelMap, key) /\ ObjGet(labelMap, key) # <<>>
            THEN ObjGet(labelMap, key) ELSE key,
   budget_hours |-> budget,
   actual_hours |-> actual,
   variance_hours |-> actual - budget,
   variance_percent |-> IF budget > 0
                        THEN {[variance |-> actual - budget, budget |-> budget]}
                        ELSE {}]

\* one entry of a cost-code breakdown before the rebalancing
BreakdownEntry(code, actualHours, budgetHours) ==
  [cost_code |-> code,
   actual_hours |-> actualHours,
   budget_hours |-> budgetHours,
   variance_hours |-> actualHours - budgetHours,
   variance_percent |-> IF budgetHours > 0
                        THEN {[variance |-> actualHours - budgetHours,
                               budget |-> budgetHours]}
                        ELSE {}]

RECURSIVE SumBudgetHours(_)
SumBudgetHours(costCodeEntries) ==
  IF costCodeEntries = <<>> THEN 0
  ELSE SumBudgetHours(SubSeq(costCodeEntries, 1, Len(costCodeEntries) - 1))
         + costCodeEntries[Len(costCodeEntries)].budget_hours

RECURSIVE SumActualHours(_)
SumActualHours(costCodeEntries) ==
  IF costCodeEntries = <<>> THEN 0
  ELSE SumActualHours(SubSeq(costCodeEntries, 1, Len(costCodeEntries) - 1))
         + costCodeEntries[Len(costCodeEntries)].actual_hours

\* the rebalancing: the last entry takes what the entries lack of budgetTotal
Rebalanced(costCodeEntries, budgetTotal) ==
  LET delta == budgetTotal - SumBudgetHours(costCodeEntries)
      lastEntry == costCodeEntries[Len(costCodeEntries)]
      budget == lastEntry.budget_hours + delta
  IN [costCodeEntries EXCEPT ![Len(costCodeEntries)] =
        [lastEntry EXCEPT
           !.budget_hours = budget,
           !.variance_hours = lastEntry.actual_hours - budget,
           !.variance_percent =
              IF budget # 0
              THEN {[variance |-> lastEntry.actual_hours - budget, budget |-> budget]}
              ELSE {}]]

buildCostCodeBreakdown(actualCostCodesAggregated, budgetCostCodesAggregated, targetKey, budgetTotal) ==
  LET actualBreakdown == BreakdownOf(actualCostCodesAggregated, targetKey)
      budgetBreakdown == BreakdownOf(budgetCostCodesAggregated, targetKey)
      allCodes == KeysInOrder(actualBreakdown.costCodes, budgetBreakdown.costCodes)
      mapped == [k \in 1..Len(allCodes) |->
                   BreakdownEntry(allCodes[k],
                                  ObjGetOr0(actualBreakdown.costCodes, allCodes[k]),
                                  ObjGetOr0(budgetBreakdown.costCodes, allCodes[k]))]
      costCodeEntries ==
        IF budgetTotal > 0 /\ mapped = <<>>
        THEN <<[cost_code |-> Str_Budget,
                actual_hours |-> 0,
                budget_hours |-> budgetTotal,
                variance_hours |-> 0 - budgetTotal,
                variance_percent |-> {[variance |-> 0 - budgetTotal,
                                       budget |-> budgetTotal]}]>>
        ELSE mapped
      balanced == IF budgetTotal > 0 /\ costCodeEntries # <<>>
                  THEN Rebalanced(costCodeEntries, budgetTotal)
                  ELSE costCodeEntries
  IN [entries |-> balanced,
      totalActual |-> SumActualHours(balanced),
      totalBudget |-> budgetTotal]

\* comparison.forEach(row => costCodeBreakdown[row.key] = ...)
RECURSIVE BreakdownOfRows(_, _, _)
BreakdownOfRows(rows, actualCostCodesAggregated, budgetCostCodesAggregated) ==
  IF rows = <<>> THEN <<>>
  ELSE LET row == rows[Len(rows)]
       IN ObjPut(BreakdownOfRows(SubSeq(rows, 1, Len(rows) - 1),
                                 actualCostCodesAggregated, budgetCostCodesAggregated),
                 row.key,
                 buildCostCodeBreakdown(actualCostCodesAggregated,
                                        budgetCostCodesAggregated,
                                        row.key, row.budget_hours))

\* the rows of the comparison in the order of allKeys
AreaRows(budgetAggregated, actualAggregated, labelMap) ==
  [k \in 1..Len(KeysInOrder(budgetAggregated, actualAggregated)) |->
     AreaRow(KeysInOrder(budgetAggregated, actualAggregated)[k], labelMap,
             ObjGetOr0(budgetAggregated,
                       KeysInOrder(budgetAggregated, actualAggregated)[k]),
             ObjGetOr0(actualAggregated,
                       KeysInOrder(budgetAggregated, actualAggregated)[k]))]

\* rows.sort((a, b) => a.area.localeCompare(b.area))
RECURSIVE SortedByArea(_)
SortedByArea(rows) ==
  IF rows = <<>> THEN <<>>
  ELSE LET sorted == SortedByArea(SubSeq(rows, 1, Len(rows) - 1))
           r == rows[Len(rows)]
           n == Cardinality({k \in 1..Len(sorted) : ~LabelLess(r.area, sorted[k].area)})
       IN SubSeq(sorted, 1, n) \o <<r>> \o SubSeq(sorted, n + 1, Len(sorted))

\* areas.sort((a, b) => a.label.localeCompare(b.label))
RECURSIVE SortedByLabel(_)
SortedByLabel(rows) ==
  IF rows = <<>> THEN <<>>
  ELSE LET sorted == SortedByLabel(SubSeq(rows, 1, Len(rows) - 1))
           r == rows[Len(rows)]
           n == Cardinality({k \in 1..Len(sorted) : ~LabelLess(r.label, sorted[k].label)})
       IN SubSeq(sorted, 1, n) \o <<r>> \o SubSeq(sorted, n + 1, Len(sorted))

\* actualAreas before the sort
ActualAreas(actualTotals, actualLabels) ==
  [k \in 1..Len(actualTotals) |->
     [key |-> actualTotals[k][1],
      label |-> IF ObjHas(actualLabels, actualTotals[k][1])
                THEN ObjGet(actualLabels, actualTotals[k][1])
                ELSE actualTotals[k][1],
      hours |-> actualTotals[k][2]]]

\* the end of buildAreaComparison: the breakdown of every row and the result
AreaResult(comparison, budgetSide, actualSide, budgetAreas, actualAreas, areaConfig) ==
  [comparison |-> comparison,
   budgetAreas |-> budgetAreas,
   actualAreas |-> actualAreas,
   mappings |-> areaConfig.mappings,
   adjustments |-> areaConfig.adjustments,
   costCodeBreakdown |-> BreakdownOfRows(comparison, actualSide.costCodes,
                                         budgetSide.costCodes)]

\* the adjustments of the actual side, the rows and their sort
AreaWithBudgetSide(budgetSide, budgetAreas, areaConfig, jobTotals, actualCostCodes) ==
  LET AfterActual(actualSide) ==
        AreaResult(SortedByArea(AreaRows(budgetSide.aggregated, actualSide.aggregated,
                                         actualSide.labelMap)),
                   budgetSide, actualSide, budgetAreas,
                   SortedByLabel(ActualAreas(jobTotals.totals, jobTotals.labels)),
                   areaConfig)
  IN AfterActual(Adjusted([aggregated |-> jobTotals.totals,
                           labelMap |-> budgetSide.labelMap,
                           costCodes |-> actualCostCodes],
                          areaConfig.adjustments.actual))

\* the body of buildAreaComparison after its four reads
AreaComparisonOf(latestBudgetUpload, areaConfig, jobTotals, jobCostCodes) ==
  LET AfterAreas(budgetAreas, byArea, budgetCostCodes) ==
        AreaWithBudgetSide(Adjusted([aggregated |-> byArea.budgetAggregated,
                                     labelMap |-> byArea.labelMap,
                                     costCodes |-> budgetCostCodes],
                                    areaConfig.adjustments.budget),
                           budgetAreas, areaConfig, jobTotals,
                           ActualCostCodes(jobCostCodes))
      AfterBudget(budgetAreas, budgetCostCodeAreas) ==
        AfterAreas(budgetAreas,
                   BudgetByArea(budgetAreas, areaConfig.mappings, jobTotals.totals,
                                jobTotals.labels),
                   BudgetCostCodes(budgetCostCodeAreas, areaConfig.mappings,
                                   jobTotals.totals))
  IN IF latestBudgetUpload = {} THEN AfterBudget(<<>>, <<>>)
     ELSE AfterBudget(BudgetAreasOf((CHOOSE b \in latestBudgetUpload : TRUE).area_hours),
                      (CHOOSE b \in latestBudgetUpload : TRUE).area_cost_code_hours)

\* budgetQueries.getLatestByProject: {} is null
getLatestByProject(bs, project) ==
  IF BudgetsByProject(bs, project) # <<>> THEN {BudgetsByProject(bs, project)[1]}
  ELSE {}

\* buildAreaComparison(projectId, latestBudget): given is {} when the caller
\* passes no budget, else {the budget it passes}
buildAreaComparison(bs, es, as, project, given) ==
  AreaComparisonOf(IF given # {} THEN given ELSE getLatestByProject(bs, project),
                   AreaConfigOf(as, project),
                   getJobTotals(es, project),
                   getJobCostCodeTotals(es, project))

\* --------------------------------------------- requests against the store
Projects == {1, 2}

Code_12 == <<"1","2">>
Code_09170_5 == <<"0","9","1","7","0",".","5">>
Code_x == <<"x">>

\* what one hour is worth in the fixed-point unit
Hours(n) == n * Scale

\* request bodies of POST /api/projects/:id/budget: a field is {} when it is
\* absent, else {the object}; an hours value is {} when parseFloat gives
\* NaN, else {the number}
BodyOf(costCodeHours) ==
  [costCodeHours |-> costCodeHours, areaHours |-> {}, areaCostCodeHours |-> {}]

BodyJoinable ==
  BodyOf({<< <<Code_12, {Hours(3)}>>, <<Code_09_170, {Hours(8)}>> >>})
BodyNegative ==
  BodyOf({<< <<Code_1200, {0 - Hours(5)}>> >>})
BodyMerging ==
  BodyOf({<< <<Code_09_170, {Hours(6)}>>, <<Code_09170_5, {Hours(2)}>>,
             <<Code_x, {Hours(4)}>> >>})
BodyNoValidCode ==
  BodyOf({<< <<Code_x, {Hours(4)}>>, <<Code_12, {}>> >>})
BodyAbsent ==
  BodyOf({})

BudgetBodies == {BodyJoinable, BodyNegative, BodyMerging, BodyNoValidCode, BodyAbsent}

\* what parsePayrollPDF returns for a document: entries of the model's lines
\* under the header LineHeaderA
ParsedEntry(line) ==
  MakeEntry(line, EmployeeParts(LineHeaderA).name,
            EmployeeParts(LineHeaderA).unionLocal, EmployeeParts(LineHeaderA).date)

ParsedBatches ==
  {<<ParsedEntry(LineEntry)>>,
   <<ParsedEntry(LineEntryInt)>>,
   <<ParsedEntry(LineEntryNoCode), ParsedEntry(LineEntryTotal)>>}

\* the updates objects given to updateEntry: a field is {} when undefined
\* here with the four fields cost_code, job_description, hours and id
EntryUpdates ==
  {[cost_code |-> {Code_12}, job_description |-> {}, hours |-> {}, id |-> {}],
   [cost_code |-> {Null}, job_description |-> {<<"S","h","o","p">>},
    hours |-> {Hours(99)}, id |-> {7}]}

NoAreaComparison ==
  [comparison |-> <<>>, budgetAreas |-> <<>>, actualAreas |-> <<>>,
   mappings |-> <<>>, adjustments |-> [budget |-> <<>>, actual |-> <<>>],
   costCodeBreakdown |-> <<>>]

NoResponse ==
  [kind |-> "none", status |-> 0, project |-> 0, budgetId |-> 0,
   comparison |-> <<>>, budgetHours |-> <<>>, latest |-> {},
   areaComparison |-> NoAreaComparison, entries |-> <<>>]

\* the empty store of a run that may hold maxEntries entries and maxBudgets
\* budget records
StoreInitWith(maxEntries, maxBudgets) ==
  /\ storeEntries = <<>>
  /\ budgets = <<>>
  /\ areas = <<>>
  /\ budgetRaw = <<>>
  /\ capacity = [entries |-> maxEntries, budgets |-> maxBudgets]
  /\ response = NoResponse

StoreInit == StoreInitWith(MaxStoreEntries, MaxBudgets)

StoreIdle ==
  /\ storeEntries = <<>>
  /\ budgets = <<>>
  /\ areas = <<>>
  /\ budgetRaw = <<>>
  /\ capacity = [entries |-> 0, budgets |-> 0]
  /\ response = [NoResponse EXCEPT !.kind = "idle"]

\* timeEntryQueries.createBatch with the entries of one parsed upload, as
\* long as the ids it gives stay within the capacity of the run
CreateBatch(project, upload, batch) ==
  /\ NextEntryId(storeEntries) + Len(batch) - 1 <= capacity.entries
  /\ storeEntries' = createBatch(storeEntries, batch, project, upload)
  /\ response' = [NoResponse EXCEPT !.kind = "createBatch", !.status = 200,
                                    !.project = project]
  /\ UNCHANGED <<budgets, areas, capacity, budgetRaw>>
  /\ UNCHANGED notStoreVars

\* one field after the update: the value given, or the old one
Updated(old, given) == IF given = {} THEN old ELSE CHOOSE v \in given : TRUE

\* an update that copies every field of the updates object
UpdatedEntryAssign(entry, updates) ==
  [entry EXCEPT !.cost_code = Updated(@, updates.cost_code),
                !.job_description = Updated(@, updates.job_description),
                !.hours = Updated(@, updates.hours),
                !.id = Updated(@, updates.id)]

\* entries[index] after the loop over allowedFields
UpdatedEntry(entry, updates) ==
  [entry EXCEPT !.cost_code = Updated(@, updates.cost_code),
                !.job_description = Updated(@, updates.job_description)]

\* timeEntryQueries.updateEntry: the first entry with the id is updated and
\* returned; an unknown id throws
UpdateEntry(id, updates) ==
  /\ IF \E k \in 1..Len(storeEntries) : storeEntries[k].id = id
     THEN \E index \in {CHOOSE k \in 1..Len(storeEntries) :
                           /\ storeEntries[k].id = id
                           /\ \A j \in 1..(k - 1) : storeEntries[j].id # id} :
            /\ storeEntries' = [storeEntries EXCEPT
                                  ![index] = UpdatedEntry(@, updates)]
            /\ response' = [NoResponse EXCEPT
                              !.kind = "updateEntry", !.status = 200,
                              !.entries = <<UpdatedEntry(storeEntries[index], updates)>>]
     ELSE /\ storeEntries' = storeEntries
          /\ response' = [NoResponse EXCEPT !.kind = "updateEntry", !.status = 500]
  /\ UNCHANGED <<budgets, areas, capacity, budgetRaw>>
  /\ UNCHANGED notStoreVars

\* a deletion that forgets uploads.json
DeleteProjectKeepsUploads(project) ==
  /\ storeProjects' = SelectSeq(storeProjects, LAMBDA p : p.id # project)
  /\ storeUploads' = storeUploads
  /\ storeEntries' = SelectSeq(storeEntries, LAMBDA e : e.project_id # project)
  /\ response' = [NoResponse EXCEPT
                    !.kind = "deleteProject", !.status = 200, !.project = project]
  /\ UNCHANGED <<budgets, areas, capacity, budgetRaw>>
  /\ UNCHANGED <<codeMappings, uploadReqs, answered>>
  /\ UNCHANGED notProjectVars

\* DELETE /api/projects/:id: projectQueries.delete filters projects.json,
\* uploads.json and entries.json one after the other without an await;
\* budgets.json, areas.json and code_mappings.json are not touched
DeleteProject(project) ==
  /\ storeProjects' = SelectSeq(storeProjects, LAMBDA p : p.id # project)
  /\ storeUploads' = SelectSeq(storeUploads, LAMBDA u : u.project_id # project)
  /\ storeEntries' = SelectSeq(storeEntries, LAMBDA e : e.project_id # project)
  /\ response' = [NoResponse EXCEPT
                    !.kind = "deleteProject", !.status = 200, !.project = project]
  /\ UNCHANGED <<budgets, areas, capacity, budgetRaw>>
  /\ UNCHANGED <<codeMappings, uploadReqs, answered>>
  /\ UNCHANGED notProjectVars

\* GET /api/projects/:id/entries
GetEntries(project) ==
  /\ response' = [NoResponse EXCEPT
                    !.kind = "getEntries", !.status = 200, !.project = project,
                    !.entries = EntriesByProject(storeEntries, project)]
  /\ UNCHANGED <<storeEntries, budgets, areas, capacity, budgetRaw>>
  /\ UNCHANGED notStoreVars

\* a handler that stores the hours of the last raw code of a key
RECURSIVE NormalizedHoursLastWins(_)
NormalizedHoursLastWins(costCodeHours) ==
  IF costCodeHours = <<>> THEN <<>>
  ELSE LET before == NormalizedHoursLastWins(SubSeq(costCodeHours, 1, Len(costCodeHours) - 1))
           pair == costCodeHours[Len(costCodeHours)]
           normalizedCode == normalizeCostCode_server(pair[1])
       IN IF normalizedCode = Null \/ pair[2] = {} THEN before
          ELSE ObjPut(before, normalizedCode, CHOOSE h \in pair[2] : TRUE)

\* the normalizedHours of the budget handler: each code through the server's
\* normalizer, pairs without a code or without finite hours skipped, hours of
\* one key added up
RECURSIVE NormalizedHours(_)
NormalizedHours(costCodeHours) ==
  IF costCodeHours = <<>> THEN <<>>
  ELSE LET before == NormalizedHours(SubSeq(costCodeHours, 1, Len(costCodeHours) - 1))
           pair == costCodeHours[Len(costCodeHours)]
           normalizedCode == normalizeCostCode_server(pair[1])
       IN IF normalizedCode = Null \/ pair[2] = {} THEN before
          ELSE ObjPut(before, normalizedCode,
                      ObjGetOr0(before, normalizedCode) + (CHOOSE h \in pair[2] : TRUE))

\* areaHoursClean: finite hours by trimmed area name
RECURSIVE AreaHoursClean(_)
AreaHoursClean(areaHours) ==
  IF areaHours = <<>> THEN <<>>
  ELSE LET before == AreaHoursClean(SubSeq(areaHours, 1, Len(areaHours) - 1))
           pair == areaHours[Len(areaHours)]
       IN IF pair[1] = <<>> \/ pair[2] = {} THEN before
          ELSE ObjPut(before, TrimStr(pair[1]),
                      ObjGetOr0(before, TrimStr(pair[1])) + (CHOOSE h \in pair[2] : TRUE))

\* the inner loop of areaCostCodeHoursClean: the codes of one area
RECURSIVE AreaCodesClean(_, _, _)
AreaCodesClean(clean, cleanArea, codes) ==
  IF codes = <<>> THEN clean
  ELSE LET before == AreaCodesClean(clean, cleanArea, SubSeq(codes, 1, Len(codes) - 1))
           pair == codes[Len(codes)]
           normalizedCode == normalizeCostCode_server(pair[1])
           old == IF ObjHas(before, cleanArea) THEN ObjGet(before, cleanArea) ELSE <<>>
       IN IF normalizedCode = Null \/ pair[2] = {} THEN before
          ELSE ObjPut(before, cleanArea,
                      ObjPut(old, normalizedCode,
                             ObjGetOr0(old, normalizedCode) + (CHOOSE h \in pair[2] : TRUE)))

\* areaCostCodeHoursClean
RECURSIVE AreaCostCodeHoursClean(_)
AreaCostCodeHoursClean(areaCostCodeHours) ==
  IF areaCostCodeHours = <<>> THEN <<>>
  ELSE LET before == AreaCostCodeHoursClean(SubSeq(areaCostCodeHours, 1,
                                                   Len(areaCostCodeHours) - 1))
           pair == areaCostCodeHours[Len(areaCostCodeHours)]
       IN IF pair[1] = <<>> THEN before
          ELSE AreaCodesClean(before, TrimStr(pair[1]), pair[2])

\* a field of the body that is an object, or the empty object
FieldOrEmpty(field) == IF field = {} THEN <<>> ELSE CHOOSE o \in field : TRUE

\* POST /api/projects/:id/budget; when is the instant new Date() gives, never
\* before the instant of an earlier record.  Of the request and of the record
\* the hours are modelled; the filename and the cost-code names are not.
PostBudget(project, body, when) ==
  /\ Len(budgets) < capacity.budgets
  /\ when \in {LatestDate(budgets), LatestDate(budgets) + 1}
  /\ \E normalizedHours \in {NormalizedHours(FieldOrEmpty(body.costCodeHours))} :
       IF body.costCodeHours = {} \/ normalizedHours = <<>>
       THEN /\ response' = [NoResponse EXCEPT !.kind = "postBudget", !.status = 400,
                                              !.project = project]
            /\ UNCHANGED <<budgets, budgetRaw>>
       ELSE \E created \in {BudgetRecord(budgets, project, normalizedHours,
                                         AreaHoursClean(FieldOrEmpty(body.areaHours)),
                                         AreaCostCodeHoursClean(
                                           FieldOrEmpty(body.areaCostCodeHours)),
                                         when)} :
            \E built \in {buildBudgetComparison(Append(budgets, created), storeEntries,
                                                project, {normalizedHours})} :
            \E areaComparison \in {buildAreaComparison(Append(budgets, created),
                                                       storeEntries, areas, project,
                                                       {created})} :
              /\ budgets' = Append(budgets, created)
              /\ budgetRaw' = Append(budgetRaw, CHOOSE o \in body.costCodeHours : TRUE)
              /\ response' = [NoResponse EXCEPT
                                !.kind = "postBudget", !.status = 200,
                                !.project = project, !.budgetId = created.id,
                                !.comparison = built.comparison,
                                !.budgetHours = built.budgetHours,
                                !.latest = built.latestBudget,
                                !.areaComparison = areaComparison]
  /\ UNCHANGED <<storeEntries, areas, capacity>>
  /\ UNCHANGED notStoreVars

\* GET /api/projects/:id/budget
GetBudget(project) ==
  /\ \E built \in {buildBudgetComparison(budgets, storeEntries, project, {})} :
     \E areaComparison \in {buildAreaComparison(budgets, storeEntries, areas,
                                                project, {})} :
       response' = [NoResponse EXCEPT
                      !.kind = "getBudget", !.status = 200, !.project = project,
                      !.comparison = built.comparison,
                      !.budgetHours = built.budgetHours,
                      !.latest = built.latestBudget,
                      !.areaComparison = areaComparison]
  /\ UNCHANGED <<storeEntries, budgets, areas, capacity, budgetRaw>>
  /\ UNCHANGED notStoreVars

\* GET /api/projects/:id/areas
GetAreas(project) ==
  /\ response' = [NoResponse EXCEPT
                    !.kind = "getAreas", !.status = 200, !.project = project,
                    !.areaComparison = buildAreaComparison(budgets, storeEntries,
                                                           areas, project, {})]
  /\ UNCHANGED <<storeEntries, budgets, areas, capacity, budgetRaw>>
  /\ UNCHANGED notStoreVars

\* POST /api/projects/:id/areas/mappings
SaveMappings(project, mappings) ==
  /\ areas' = saveMappings(areas, project, mappings)
  /\ response' = [NoResponse EXCEPT
                    !.kind = "saveMappings", !.status = 200, !.project = project,
                    !.areaComparison = buildAreaComparison(budgets, storeEntries,
                                                           areas', project, {})]
  /\ UNCHANGED <<storeEntries, budgets, capacity, budgetRaw>>
  /\ UNCHANGED notStoreVars

\* POST /api/projects/:id/areas/adjustments
SaveAdjustments(project, budgetAdjustments, actualAdjustments) ==
  /\ areas' = saveAdjustments(areas, project, budgetAdjustments, actualAdjustments)
  /\ response' = [NoResponse EXCEPT
                    !.kind = "saveAdjustments", !.status = 200, !.project = project,
                    !.areaComparison = buildAreaComparison(budgets, storeEntries,
                                                           areas', project, {})]
  /\ UNCHANGED <<storeEntries, budgets, capacity, budgetRaw>>
  /\ UNCHANGED notStoreVars

NextBudget ==
  \/ \E p \in Projects, b \in ParsedBatches : CreateBatch(p, 1, b)
  \/ \E id \in 1..MaxStoreEntries, u \in EntryUpdates : UpdateEntry(id, u)
  \/ \E p \in Projects, b \in BudgetBodies, t \in 0..MaxBudgets : PostBudget(p, b, t)
  \/ \E p \in Projects : GetBudget(p)

\* ------------------------------------------- requests about the areas
Label_Shop == <<"S","h","o","p">>
Label_ShopBlank == <<"S","h","o","p"," ">>
Label_shop == <<"s","h","o","p">>
Label_Bldg1 == <<"B","l","d","g"," ","1">>
Label_bldg1 == <<"b","l","d","g"," ","1">>
Label_Building1 == <<"B","u","i","l","d","i","n","g"," ","1">>
Label_building1 == <<"b","u","i","l","d","i","n","g"," ","1">>
Label_CuyFalBld1 == <<"C","u","y"," ","F","a","l"," ","B","l","d"," ","1">>
Label_cuyfalbld1 == <<"c","u","y"," ","f","a","l"," ","b","l","d"," ","1">>
Code_01_4000 == <<"0","1","-","4","0","0","0">>

\* bodies of POST /api/projects/:id/budget that carry hours by area
BodyAreas ==
  [costCodeHours |-> {<< <<Code_1200, {Hours(35)}>> >>},
   areaHours |-> {<< <<Label_ShopBlank, {Hours(10)}>>,
                     <<Label_Bldg1, {Hours(20)}>>,
                     <<Label_Building1, {Hours(5)}>> >>},
   areaCostCodeHours |-> {<< <<Label_ShopBlank, << <<Code_01_4000, {Hours(6)}>> >> >>,
                             <<Label_Bldg1, << <<Code_1200, {Hours(12)}>>,
                                               <<Code_09_170, {Hours(4)}>> >> >> >>}]

BodyAreasNoCodes ==
  [costCodeHours |-> {<< <<Code_1200, {Hours(10)}>> >>},
   areaHours |-> {<< <<Label_Shop, {Hours(10)}>> >>},
   areaCostCodeHours |-> {}]

AreaBodies == {BodyAreas, BodyAreasNoCodes}

\* the entries of two uploads: a day in the shop, and hours on building 1
AreaBatches ==
  {<<ParsedEntry(LineEntryInt)>>, <<ParsedEntry(LineEntry)>>}

\* bodies of POST /api/projects/:id/areas/mappings
AreaMappings ==
  {<< <<Label_bldg1, Label_cuyfalbld1>>, <<Label_building1, Label_cuyfalbld1>> >>,
   << <<Label_bldg1, <<>> >> >>}

\* bodies of POST /api/projects/:id/areas/adjustments
AreaAdjustments ==
  {[budgetAdjustments |-> << <<Label_Shop, 0 - Hours(10)>> >>,
    actualAdjustments |-> << <<Label_shop, Hours(2)>> >>],
   [budgetAdjustments |-> << <<Label_CuyFalBld1, Hours(3)>> >>,
    actualAdjustments |-> << <<Label_CuyFalBld1, Hours(1)>> >>]}

NextArea ==
  \/ \E b \in AreaBatches : CreateBatch(1, 1, b)
  \/ \E b \in AreaBodies : PostBudget(1, b, LatestDate(budgets) + 1)
  \/ \E m \in AreaMappings : SaveMappings(1, m)
  \/ \E a \in AreaAdjustments :
       SaveAdjustments(1, a.budgetAdjustments, a.actualAdjustments)
  \/ GetAreas(1)

\* ------------------------------------------ the upload history of budgets
HistoryBodies == {BodyJoinable, BodyAreasNoCodes}

NextHistory ==
  \/ \E p \in Projects, b \in HistoryBodies,
          t \in {LatestDate(budgets), LatestDate(budgets) + 1} : PostBudget(p, b, t)
  \/ \E p \in Projects : GetBudget(p)
  \/ \E p \in Projects : GetAreas(p)

\* ------------------------------------------------ the stored time entries
\* an entry of another employee and another day
ParsedEntryB(line) ==
  MakeEntry(line, EmployeeParts(LineHeaderB).name,
            EmployeeParts(LineHeaderB).unionLocal, EmployeeParts(LineHeaderB).date)

EntryBatches ==
  {<<ParsedEntry(LineEntry)>>, <<ParsedEntryB(LineEntryInt)>>,
   <<ParsedEntryB(LineEntryNoCode)>>}

EntryUpdatesAll ==
  EntryUpdates \cup
    {[cost_code |-> {Code_x}, job_description |-> {}, hours |-> {}, id |-> {}]}

NextEntries ==
  \/ \E p \in Projects, b \in EntryBatches : CreateBatch(p, 1, b)
  \/ \E id \in 1..MaxEntries, u \in EntryUpdatesAll : UpdateEntry(id, u)
  \/ \E p \in Projects : GetEntries(p)
  \/ \E p \in Projects : DeleteProject(p)

\* ------------------------------------- the area configurations of projects
NextAreaConfig ==
  \/ \E p \in Projects, m \in AreaMappings : SaveMappings(p, m)
  \/ \E p \in Projects, a \in AreaAdjustments :
       SaveAdjustments(p, a.budgetAdjustments, a.actualAdjustments)

\* ------------------------------------------- the hours by job of a project
\* an edit that leaves a blank in the job description
JobUpdates ==
  {[cost_code |-> {}, job_description |-> {<<" ">>}, hours |-> {}, id |-> {}],
   [cost_code |-> {Code_12}, job_description |-> {Label_ShopBlank},
    hours |-> {}, id |-> {}]}

NextJobs ==
  \/ \E p \in Projects, b \in EntryBatches : CreateBatch(p, 1, b)
  \/ \E id \in 1..MaxEntries, u \in JobUpdates : UpdateEntry(id, u)
  \/ \E p \in Projects : GetAreas(p)

\* ------------------------------------------------- budget uploads, usable or not
\* a body whose costCodeHours is the empty object
BodyEmptyObject == BodyOf({<<>>})

UploadBodies == BudgetBodies \cup {BodyEmptyObject}

NextBudgetUpload ==
  \E p \in Projects, b \in UploadBodies,
     t \in {LatestDate(budgets), LatestDate(budgets) + 1} : PostBudget(p, b, t)

\* ------------------------------------------- server: requests in flight
\* A handler is an async function: it runs without interruption up to an
\* await, and what runs next is any continuation that is ready, of this
\* request or of another one.  Every body of database.js is synchronous
\* (readJSON and writeJSON use readFileSync and writeFileSync), so a store
\* function reads or writes its file at the moment it is called.

\* the bodies the concurrent requests carry
ConcMappings == << <<Label_bldg1, Label_cuyfalbld1>> >>
ConcBody == BodyAreasNoCodes
ConcBatch == <<ParsedEntry(LineEntryInt)>>

RequestKinds == {"getBudget", "saveMappings", "postBudget", "upload"}

\* what a handler does between its awaits, in order: a store write, a call
\* of buildBudgetComparison, a call of buildAreaComparison; then res.json
Program(kind) ==
  CASE kind = "getBudget" -> <<"budget", "area">>
    [] kind = "saveMappings" -> <<"write", "area">>
    [] kind = "postBudget" -> <<"write", "budget", "area">>
    [] kind = "upload" -> <<"write">>
    [] OTHER -> <<>>

IdleRequest ==
  [kind |-> "idle", project |-> 0, step |-> 0, given |-> {}, budgetId |-> 0,
   reads |-> <<>>, calls |-> <<>>]

ConcIdle ==
  /\ requests = [r \in 1..MaxRequests |-> IdleRequest]
  /\ writes = 0

\* the store functions a call starts in the argument array of its
\* Promise.all, by the file each reads: buildBudgetComparison calls
\* getByProject and getCostCodeTotals; buildAreaComparison calls
\* getLatestByProject (not when it is given the budget), areaQueries
\* .getByProject, getJobTotals and getJobCostCodeTotals
ReadFiles(call, hasGiven) ==
  IF call = "budget" THEN <<"budgets", "entries">>
  ELSE IF hasGiven THEN <<"areas", "entries", "entries">>
  ELSE <<"budgets", "areas", "entries", "entries">>

\* readJSON of a store file
FileNow(file) ==
  CASE file = "budgets" -> budgets
    [] file = "areas" -> areas
    [] OTHER -> storeEntries

\* a call that awaits each store function before it calls the next
ReadsOneAwaitEach(files, done) == 1

\* how many of its reads a call makes before it is first suspended: all of
\* them, the array is built before Promise.all is called and awaited
ReadsBeforeSuspension(files, done) == Len(files) - done

\* the writes of the requests accepted and not yet made
PendingWrites(kind) ==
  Cardinality({r \in 1..MaxRequests :
                 /\ requests[r].kind = kind
                 /\ requests[r].step = 1
                 /\ Program(kind)[1] = "write"})

\* a request arrives and waits for its handler to be run
Accept(r, kind) ==
  /\ requests[r].kind = "idle"
  /\ \A q \in 1..(r - 1) : requests[q].kind # "idle"
  /\ Program(kind)[1] = "write" =>
       /\ writes + PendingWrites("saveMappings") + PendingWrites("postBudget")
            + PendingWrites("upload") < MaxWrites
       /\ kind = "postBudget" =>
            Len(budgets) + PendingWrites("postBudget") < capacity.budgets
       /\ kind = "upload" =>
            NextEntryId(storeEntries) + Len(ConcBatch) * (PendingWrites("upload") + 1) - 1
              <= capacity.entries
  /\ requests' = [requests EXCEPT ![r] =
                    [IdleRequest EXCEPT !.kind = kind, !.project = 1,
                                        !.step = 1]]
  /\ UNCHANGED <<storeEntries, budgets, areas, response, capacity, budgetRaw, writes>>
  /\ UNCHANGED notRequestVars

\* the budget record POST /budget creates from its body
ConcBudgetRecord ==
  BudgetRecord(budgets, 1,
               NormalizedHours(FieldOrEmpty(ConcBody.costCodeHours)),
               AreaHoursClean(FieldOrEmpty(ConcBody.areaHours)),
               AreaCostCodeHoursClean(FieldOrEmpty(ConcBody.areaCostCodeHours)),
               LatestDate(budgets) + 1)

\* the handler runs to the await of its store write: areaQueries.saveMappings,
\* budgetQueries.create or timeEntryQueries.createBatch
RunWrite(r) ==
  /\ requests[r].kind # "idle"
  /\ requests[r].step <= Len(Program(requests[r].kind))
  /\ Program(requests[r].kind)[requests[r].step] = "write"
  /\ \E kind \in {requests[r].kind} : \E created \in {ConcBudgetRecord} :
       /\ areas' = IF kind = "saveMappings"
                   THEN saveMappings(areas, requests[r].project, ConcMappings)
                   ELSE areas
       /\ budgets' = IF kind = "postBudget" THEN Append(budgets, created) ELSE budgets
       /\ budgetRaw' = IF kind = "postBudget"
                       THEN Append(budgetRaw, CHOOSE o \in ConcBody.costCodeHours : TRUE)
                       ELSE budgetRaw
       /\ storeEntries' = IF kind = "upload"
                          THEN createBatch(storeEntries, ConcBatch,
                                           requests[r].project, 1)
                          ELSE storeEntries
       /\ requests' = [requests EXCEPT
                         ![r].step = @ + 1,
                         ![r].given = IF kind = "postBudget" THEN {created} ELSE @,
                         ![r].budgetId = IF kind = "postBudget" THEN created.id ELSE @]
  /\ writes' = writes + 1
  /\ UNCHANGED <<response, capacity>>
  /\ UNCHANGED notRequestVars

\* the reads k+1..k+n of a call, made now
ReadsNow(files, k, n) ==
  [j \in 1..n |-> [file |-> files[k + j], at |-> writes,
                    seen |-> FileNow(files[k + j])]]

\* the handler is resumed and runs into buildBudgetComparison or
\* buildAreaComparison, up to the await of that call
RunCall(r) ==
  /\ requests[r].kind # "idle"
  /\ requests[r].step <= Len(Program(requests[r].kind))
  /\ Program(requests[r].kind)[requests[r].step] \in {"budget", "area"}
  /\ \E call \in {Program(requests[r].kind)[requests[r].step]} :
     \E files \in {ReadFiles(call, requests[r].given # {})} :
     \E n \in {ReadsBeforeSuspension(files, Len(requests[r].reads))} :
     \E reads \in {requests[r].reads \o ReadsNow(files, Len(requests[r].reads), n)} :
       requests' = [requests EXCEPT ![r] =
                      IF Len(reads) = Len(files)
                      THEN [@ EXCEPT !.reads = <<>>, !.step = @ + 1,
                                     !.calls = Append(@, [name |-> call,
                                                          reads |-> reads])]
                      ELSE [@ EXCEPT !.reads = reads]]
  /\ UNCHANGED <<storeEntries, budgets, areas, response, capacity, budgetRaw, writes>>
  /\ UNCHANGED notRequestVars

\* the calls of one name a request has finished
CallsNamed(req, name) == SelectSeq(req.calls, LAMBDA c : c.name = name)

\* what buildBudgetComparison returns from what its two reads saw
BudgetFromReads(req, reads) ==
  buildBudgetComparison(reads[1].seen, reads[2].seen, req.project,
                        {g.cost_code_hours : g \in req.given})

\* what buildAreaComparison returns from what its reads saw
AreaFromReads(req, reads) ==
  IF req.given # {}
  THEN AreaComparisonOf(req.given,
                        AreaConfigOf(reads[1].seen, req.project),
                        getJobTotals(reads[2].seen, req.project),
                        getJobCostCodeTotals(reads[3].seen, req.project))
  ELSE AreaComparisonOf(getLatestByProject(reads[1].seen, req.project),
                        AreaConfigOf(reads[2].seen, req.project),
                        getJobTotals(reads[3].seen, req.project),
                        getJobCostCodeTotals(reads[4].seen, req.project))

\* res.json of the four routes
ResponseOf(req) ==
  IF req.kind = "upload"
  THEN [NoResponse EXCEPT !.kind = "createBatch", !.status = 200,
                          !.project = req.project]
  ELSE IF req.kind = "saveMappings"
  THEN [NoResponse EXCEPT
          !.kind = "saveMappings", !.status = 200, !.project = req.project,
          !.areaComparison = AreaFromReads(req, CallsNamed(req, "area")[1].reads)]
  ELSE [NoResponse EXCEPT
          !.kind = req.kind, !.status = 200, !.project = req.project,
          !.budgetId = req.budgetId,
          !.comparison = BudgetFromReads(req, CallsNamed(req, "budget")[1].reads).comparison,
          !.budgetHours = BudgetFromReads(req, CallsNamed(req, "budget")[1].reads).budgetHours,
          !.latest = BudgetFromReads(req, CallsNamed(req, "budget")[1].reads).latestBudget,
          !.areaComparison = AreaFromReads(req, CallsNamed(req, "area")[1].reads)]

\* the handler is resumed after its last await and answers
Respond(r) ==
  /\ requests[r].kind # "idle"
  /\ requests[r].step = Len(Program(requests[r].kind)) + 1
  /\ response' = ResponseOf(requests[r])
  /\ requests' = [requests EXCEPT ![r] = IdleRequest]
  /\ UNCHANGED <<storeEntries, budgets, areas, capacity, budgetRaw, writes>>
  /\ UNCHANGED notRequestVars

NextConc ==
  \/ \E r \in 1..MaxRequests, kind \in RequestKinds : Accept(r, kind)
  \/ \E r \in 1..MaxRequests : RunWrite(r)
  \/ \E r \in 1..MaxRequests : RunCall(r)
  \/ \E r \in 1..MaxRequests : Respond(r)

\* ------------------------------------ projects, uploads and code mappings
\* projectQueries.create: the id is one above the largest id in projects.json,
\* 1 in an empty file
NextProjectId(ps) ==
  IF Len(ps) > 0
  THEN (CHOOSE m \in {ps[k].id : k \in 1..Len(ps)} :
          \A k \in 1..Len(ps) : m >= ps[k].id) + 1
  ELSE 1

\* the record pushed to projects.json; size, size_unit, start_date, end_date
\* and notes are copied from the request like name
createProject(ps, name) == Append(ps, [id |-> NextProjectId(ps), name |-> name])

\* uploadQueries.create
NextUploadId(us) ==
  IF Len(us) > 0
  THEN (CHOOSE m \in {us[k].id : k \in 1..Len(us)} :
          \A k \in 1..Len(us) : m >= us[k].id) + 1
  ELSE 1

\* the record pushed to uploads.json; the route gives no metrics, so the
\* five metrics fields are null
createUpload(us, project, filename) ==
  Append(us, [id |-> NextUploadId(us), project_id |-> project,
              filename |-> filename, parsed_hours |-> Null,
              entries_inserted |-> Null])

\* codeMappingQueries.saveMappings: the record of the project is replaced by
\* one holding a copy of the mappings given, or pushed
saveCodeMappings(cm, project, mappings) ==
  IF \E k \in 1..Len(cm) : cm[k].project_id = project
  THEN [cm EXCEPT ![CHOOSE k \in 1..Len(cm) :
                      /\ cm[k].project_id = project
                      /\ \A j \in 1..(k - 1) : cm[j].project_id # project] =
                    [project_id |-> project, mappings |-> mappings]]
  ELSE Append(cm, [project_id |-> project, mappings |-> mappings])

\* the inputs of the requests
ProjectNames == {<<"T","o","w","e","r">>}
FileNames == {<<"w","k","1",".","p","d","f">>}
CodeMappingSets == {<< <<Code_09_170, Code_1200>> >>}
UploadBatches ==
  {<<ParsedEntry(LineEntry)>>,
   <<ParsedEntry(LineEntryNoCode), ParsedEntry(LineEntryInt)>>}

IdleUpload == [pc |-> "idle", project |-> 0, uploadId |-> 0, batch |-> <<>>]

\* the store of a fresh installation and no request in flight
ProjectsInit ==
  /\ storeProjects = <<>>
  /\ storeUploads = <<>>
  /\ codeMappings = <<>>
  /\ uploadReqs = [r \in 1..MaxRequests |-> IdleUpload]
  /\ answered = <<>>

\* the upload requests that have come with a file so far
UploadsSoFar ==
  Len(answered) + Cardinality({r \in 1..MaxRequests : uploadReqs[r].pc # "idle"})

\* POST /api/projects: projectQueries.create and the answer with the project
CreateProject(name) ==
  /\ NextProjectId(storeProjects) <= MaxProjects
  /\ storeProjects' = createProject(storeProjects, name)
  /\ response' = [NoResponse EXCEPT
                    !.kind = "createProject", !.status = 200,
                    !.project = NextProjectId(storeProjects)]
  /\ UNCHANGED <<storeEntries, budgets, areas, capacity, budgetRaw>>
  /\ UNCHANGED <<storeUploads, codeMappings, uploadReqs, answered>>
  /\ UNCHANGED notProjectVars

\* codeMappingQueries.saveMappings (no route of server.js calls it)
SaveCodeMappings(project, mappings) ==
  /\ codeMappings' = saveCodeMappings(codeMappings, project, mappings)
  /\ response' = [NoResponse EXCEPT
                    !.kind = "saveCodeMappings", !.status = 200, !.project = project]
  /\ UNCHANGED <<storeEntries, budgets, areas, capacity, budgetRaw>>
  /\ UNCHANGED <<storeProjects, storeUploads, uploadReqs, answered>>
  /\ UNCHANGED notProjectVars

\* POST /api/projects/:id/upload without a file: 400, nothing is stored
UploadWithoutFile(project) ==
  /\ response' = [NoResponse EXCEPT
                    !.kind = "upload", !.status = 400, !.project = project]
  /\ UNCHANGED <<storeEntries, budgets, areas, capacity, budgetRaw>>
  /\ UNCHANGED projectVars
  /\ UNCHANGED notProjectVars

\* the handler starts with a file and runs to its first await: the body of
\* uploadQueries.create has written the upload record; then the parse of the
\* file is awaited.  The project id of the URL is not looked up.
UploadStart(r, project, filename) ==
  /\ uploadReqs[r].pc = "idle"
  /\ \A q \in 1..(r - 1) : uploadReqs[q].pc # "idle"
  /\ UploadsSoFar < MaxUploads
  /\ storeUploads' = createUpload(storeUploads, project, filename)
  /\ uploadReqs' = [uploadReqs EXCEPT ![r] =
                      [pc |-> "parsing", project |-> project,
                       uploadId |-> NextUploadId(storeUploads), batch |-> <<>>]]
  /\ UNCHANGED <<storeEntries, budgets, areas, response, capacity, budgetRaw>>
  /\ UNCHANGED <<storeProjects, codeMappings, answered>>
  /\ UNCHANGED notProjectVars

\* the handler is resumed with a failure: parsePayrollPDF rejected (the file
\* cannot be read, pdf() rejects) or what it gave has no map(); the catch
\* block answers 500 and removes nothing
UploadParseFails(r) ==
  /\ uploadReqs[r].pc = "parsing"
  /\ response' = [NoResponse EXCEPT
                    !.kind = "upload", !.status = 500,
                    !.project = uploadReqs[r].project]
  /\ answered' = Append(answered, [status |-> 500,
                                   project |-> uploadReqs[r].project,
                                   uploadId |-> uploadReqs[r].uploadId,
                                   batch |-> <<>>])
  /\ uploadReqs' = [uploadReqs EXCEPT ![r] = IdleUpload]
  /\ UNCHANGED <<storeEntries, budgets, areas, capacity, budgetRaw>>
  /\ UNCHANGED <<storeProjects, storeUploads, codeMappings>>
  /\ UNCHANGED notProjectVars

\* the handler is resumed with the parsed entries, maps them to the rows of
\* its project and upload and runs into timeEntryQueries.createBatch, whose
\* body writes before the await returns
UploadInsert(r, batch) ==
  /\ uploadReqs[r].pc = "parsing"
  /\ NextEntryId(storeEntries) + Len(batch) - 1 <= capacity.entries
  /\ storeEntries' = createBatch(storeEntries, batch, uploadReqs[r].project,
                                 uploadReqs[r].uploadId)
  /\ uploadReqs' = [uploadReqs EXCEPT ![r].pc = "inserted", ![r].batch = batch]
  /\ UNCHANGED <<budgets, areas, response, capacity, budgetRaw>>
  /\ UNCHANGED <<storeProjects, storeUploads, codeMappings, answered>>
  /\ UNCHANGED notProjectVars

\* res.json({success, uploadId, entriesFound, entriesInserted})
UploadRespond(r) ==
  /\ uploadReqs[r].pc = "inserted"
  /\ response' = [NoResponse EXCEPT
                    !.kind = "upload", !.status = 200,
                    !.project = uploadReqs[r].project]
  /\ answered' = Append(answered, [status |-> 200,
                                   project |-> uploadReqs[r].project,
                                   uploadId |-> uploadReqs[r].uploadId,
                                   batch |-> uploadReqs[r].batch])
  /\ uploadReqs' = [uploadReqs EXCEPT ![r] = IdleUpload]
  /\ UNCHANGED <<storeEntries, budgets, areas, capacity, budgetRaw>>
  /\ UNCHANGED <<storeProjects, storeUploads, codeMappings>>
  /\ UNCHANGED notProjectVars

\* the project is in projects.json
ProjectExists(project) ==
  \E k \in 1..Len(storeProjects) : storeProjects[k].id = project

\* the projects a client can name: those that getAll lists
ListedProjects == {p \in Projects : ProjectExists(p)}

\* upload requests that overlap, on projects that are never deleted
NextUploads ==
  \/ \E name \in ProjectNames : CreateProject(name)
  \/ \E p \in Projects : UploadWithoutFile(p)
  \/ \E r \in 1..MaxRequests, p \in ListedProjects, f \in FileNames : UploadStart(r, p, f)
  \/ \E r \in 1..MaxRequests : UploadParseFails(r)
  \/ \E r \in 1..MaxRequests, b \in UploadBatches : UploadInsert(r, b)
  \/ \E r \in 1..MaxRequests : UploadRespond(r)

\* the life of projects: creation, deletion and what is stored under their
\* ids.  Requests name listed projects only; budgets and mappings are saved
\* under id 1, and one upload runs at a time.
NextProjects ==
  \/ \E name \in ProjectNames : CreateProject(name)
  \/ \E p \in ListedProjects : DeleteProject(p)
  \/ \E p \in ListedProjects \cap {1} :
       PostBudget(p, BodyJoinable, LatestDate(budgets) + 1)
  \/ \E p \in ListedProjects \cap {1} : SaveMappings(p, ConcMappings)
  \/ \E p \in ListedProjects \cap {1} :
       SaveCodeMappings(p, CHOOSE m \in CodeMappingSets : TRUE)
  \/ \E r \in {1}, p \in ListedProjects, f \in FileNames : UploadStart(r, p, f)
  \/ \E r \in {1} : UploadParseFails(r)
  \/ \E r \in {1}, b \in UploadBatches : UploadInsert(r, b)
  \/ \E r \in {1} : UploadRespond(r)

\* projects created and deleted while payroll files are uploaded to them
NextCascade ==
  \/ \E name \in ProjectNames : CreateProject(name)
  \/ \E p \in ListedProjects : DeleteProject(p)
  \/ \E r \in {1}, p \in ListedProjects, f \in FileNames : UploadStart(r, p, f)
  \/ \E r \in {1} : UploadParseFails(r)
  \/ \E r \in {1}, b \in UploadBatches : UploadInsert(r, b)
  \/ \E r \in {1} : UploadRespond(r)

\* --------------------------------------------------------- specifications
\* one parse of one document
InitParse == ParseInit /\ NormIdle /\ StoreIdle /\ ConcIdle /\ DateIdle /\ ProjectsInit

SpecParse == InitParse /\ [][NextParse]_vars

\* the same parse, run to its end: a started call of parsePayrollPDF is a
\* synchronous loop that nothing interrupts, so a step that can be taken is taken
InitParseFair == InitParse /\ Len(lines) <= MaxFairLines

SpecParseFair == InitParseFair /\ [][NextParse]_vars /\ WF_vars(NextParse)

\* the normalizer applied to one raw value, and again to its result
InitNorm == NormInit /\ ParseIdle /\ StoreIdle /\ ConcIdle /\ DateIdle /\ ProjectsInit

SpecNorm == InitNorm /\ [][NextNorm]_vars

\* requests against the record store, one at a time
InitBudget == StoreInit /\ ParseIdle /\ NormIdle /\ ConcIdle /\ DateIdle /\ ProjectsInit

SpecBudget == InitBudget /\ [][NextBudget]_vars

\* requests about the areas of one project, one at a time
InitArea == StoreInitWith(MaxAreaEntries, MaxBudgets) /\ ParseIdle /\ NormIdle /\ ConcIdle /\ DateIdle /\ ProjectsInit

SpecArea == InitArea /\ [][NextArea]_vars

\* budget uploads of two projects and the reads of the latest one
InitHistory == StoreInitWith(0, MaxUploads) /\ ParseIdle /\ NormIdle /\ ConcIdle /\ DateIdle /\ ProjectsInit

SpecHistory == InitHistory /\ [][NextHistory]_vars

\* the stored entries: uploads, edits and reads
InitEntries == StoreInitWith(MaxEntries, 0) /\ ParseIdle /\ NormIdle /\ ConcIdle /\ DateIdle /\ ProjectsInit

SpecEntries == InitEntries /\ [][NextEntries]_vars

\* requests that overlap: a handler gives way at each of its awaits
InitConc == StoreInitWith(MaxStoreEntries, MaxBudgets) /\ ParseIdle /\ NormIdle /\ ConcIdle /\ DateIdle /\ ProjectsInit

SpecConc == InitConc /\ [][NextConc]_vars

\* convertDate applied to one date of a payroll report
InitDate == DateInit /\ ParseIdle /\ NormIdle /\ StoreIdle /\ ConcIdle /\ ProjectsInit

SpecDate == InitDate /\ [][NextDate]_vars

\* upload requests that overlap
InitUploads == StoreInitWith(MaxEntries, 0) /\ ParseIdle /\ NormIdle /\ ConcIdle /\ DateIdle /\ ProjectsInit

SpecUploads == InitUploads /\ [][NextUploads]_vars

\* projects created and deleted between the other requests
InitProjects == StoreInitWith(MaxEntries, MaxBudgets) /\ ParseIdle /\ NormIdle /\ ConcIdle /\ DateIdle /\ ProjectsInit

SpecProjects == InitProjects /\ [][NextProjects]_vars

\* uploads to projects that may be deleted meanwhile
InitCascade == StoreInitWith(MaxEntries, 0) /\ ParseIdle /\ NormIdle /\ ConcIdle /\ DateIdle /\ ProjectsInit

SpecCascade == InitCascade /\ [][NextCascade]_vars

\* mappings and adjustments saved for two projects
InitAreaConfig == StoreInitWith(0, 0) /\ ParseIdle /\ NormIdle /\ ConcIdle /\ DateIdle /\ ProjectsInit

SpecAreaConfig == InitAreaConfig /\ [][NextAreaConfig]_vars

\* stored entries, their edits and the reads of the hours by job
InitJobs == StoreInitWith(MaxEntries, 0) /\ ParseIdle /\ NormIdle /\ ConcIdle /\ DateIdle /\ ProjectsInit

SpecJobs == InitJobs /\ [][NextJobs]_vars

\* budget uploads with and without usable data
InitBudgetUpload == StoreInitWith(0, MaxUploads) /\ ParseIdle /\ NormIdle /\ ConcIdle /\ DateIdle /\ ProjectsInit

SpecBudgetUpload == InitBudgetUpload /\ [][NextBudgetUpload]_vars

Init == InitParse \/ InitNorm \/ InitBudget \/ InitArea \/ InitHistory \/ InitEntries \/ InitConc \/ InitDate \/ InitUploads \/ InitProjects \/ InitCascade \/ InitAreaConfig \/ InitJobs \/ InitBudgetUpload

Next == NextParse \/ NextNorm \/ NextBudget \/ NextArea \/ NextHistory \/ NextEntries \/ NextConc \/ NextDate \/ NextUploads \/ NextProjects \/ NextCascade \/ NextAreaConfig \/ NextJobs \/ NextBudgetUpload

Spec == Init /\ [][Next]_vars

\* ================================================ properties
\* lines the loop has gone past
Processed == 1..(i - 1)

\* the largest member of a set of line numbers, 0 if there is none
Latest(S) == IF S = {} THEN 0 ELSE CHOOSE h \in S : \A g \in S : h >= g

\* the last employee header before line e, 0 if there is none
LastHeaderBefore(e) == Latest({h \in 1..(e - 1) : employeeMatch(lines[h])})

SetsDate(line) == employeeMatch(line) \/ dateOnlyMatch(line)

\* the last header or standalone date before line e, 0 if there is none
LastDateBefore(e) == Latest({h \in 1..(e - 1) : SetsDate(lines[h])})

DateSetBy(line) ==
  IF employeeMatch(line) THEN EmployeeParts(line).date ELSE line.toks[1]

\* C1: every emitted entry carries the employee name and union local of the
\* most recent employee-header line before it and the (converted) date of
\* the most recent header or standalone-date line before it.
C1_ContextCarryForward ==
  \A k \in 1..Len(entries) :
    LET e == entryFrom[k]
        h == LastHeaderBefore(e)
        d == LastDateBefore(e)
    IN /\ h > 0 /\ d > 0
       /\ entries[k].employee_name = EmployeeParts(lines[h]).name
       /\ entries[k].union_local = EmployeeParts(lines[h]).unionLocal
       /\ entries[k].date = convertDate(DateSetBy(lines[d]))

\* an entry whose date comes from a standalone date line that follows the
\* header and differs from the header's date
C1_Witness ==
  \E k \in 1..Len(entries) :
    LET e == entryFrom[k]
        h == LastHeaderBefore(e)
        d == LastDateBefore(e)
    IN /\ h > 0 /\ d > h
       /\ dateOnlyMatch(lines[d])
       /\ DateSetBy(lines[d]) # EmployeeParts(lines[h]).date
       /\ entries[k].date = convertDate(lines[d].toks[1])
       /\ entries[k].employee_name = EmployeeParts(lines[h]).name

\* a line with the columns of a time entry whose hours token (the fifth
\* column) ends with a minus sign
TrailingMinusHours(line) ==
  /\ line.lead
  /\ Len(line.toks) >= 8
  /\ IsPayClass(line.toks[1])
  /\ IsPayId(line.toks[2])
  /\ HasCertPrefix(line.toks[3])
  /\ Len(line.toks[5]) >= 2
  /\ line.toks[5][Len(line.toks[5])] = "-"
  /\ IsNumTok(SubSeq(line.toks[5], 1, Len(line.toks[5]) - 1))

\* C2: every emitted entry has hours >= 0, and a line whose hours token has
\* a trailing minus produces no entry.
C2_HoursNonNegative ==
  /\ \A k \in 1..Len(entries) : entries[k].hours >= 0
  /\ \A x \in Processed :
       TrailingMinusHours(lines[x]) => x \notin Range(entryFrom)

\* a trailing-minus line was scanned with employee and date set, next to a
\* line that did emit an entry with positive hours
C2_Witness ==
  /\ \E x \in Processed :
       /\ TrailingMinusHours(lines[x])
       /\ LastHeaderBefore(x) > 0
       /\ x \notin Range(entryFrom)
  /\ \E k \in 1..Len(entries) : entries[k].hours > 0

\* C3: a trailing-minus line scanned with employee and date set is appended
\* to ignoredLines as its trimmed text plus " (ignored negative hours)" and
\* emits no entry.
C3_NegativeHoursAnnotated ==
  \A x \in Processed :
    (TrailingMinusHours(lines[x]) /\ LastHeaderBefore(x) > 0) =>
       /\ x \notin Range(entryFrom)
       /\ \E k \in 1..Len(ignoredLines) :
            /\ ignoredFrom[k] = x
            /\ ignoredLines[k] = TrimLine(lines[x]) \o NegativeNote

\* a line that matches one of the two entry patterns
IsEntryLine(line) == entryMatch(line) \/ entryNoCodeMatch(line)

\* /\d+\.\d{1,2}/ written out on the text of the line
HasDecimal(line) ==
  LET s == TrimLine(line)
  IN \E p \in 1..(Len(s) - 2) :
       /\ s[p] \in Range(DigitSeq)
       /\ s[p + 1] = "."
       /\ s[p + 2] \in Range(DigitSeq)

\* C4 as stated: an entry line before any employee header produces no entry
\* and nothing in ignoredLines.
C4_DroppedSilently ==
  \A x \in Processed :
    (IsEntryLine(lines[x]) /\ LastHeaderBefore(x) = 0) =>
       x \notin Range(entryFrom) /\ x \notin Range(ignoredFrom)

\* C4 as amended: an entry line before any employee header produces no
\* entry; its trimmed text is appended to ignoredLines exactly when the line
\* holds a decimal number (digits, point, digit), otherwise it leaves no
\* trace.
C4_DroppedOrFlagged ==
  \A x \in Processed :
    (IsEntryLine(lines[x]) /\ LastHeaderBefore(x) = 0) =>
       /\ x \notin Range(entryFrom)
       /\ HasDecimal(lines[x]) <=>
            \E k \in 1..Len(ignoredLines) :
              ignoredFrom[k] = x /\ ignoredLines[k] = TrimLine(lines[x])
       /\ ~HasDecimal(lines[x]) => x \notin Range(ignoredFrom)

\* both cases before any header: one entry line flagged, one dropped
C4_Witness ==
  /\ \E x \in Processed :
       /\ IsEntryLine(lines[x]) /\ LastHeaderBefore(x) = 0
       /\ x \in Range(ignoredFrom)
  /\ \E x \in Processed :
       /\ IsEntryLine(lines[x]) /\ LastHeaderBefore(x) = 0
       /\ x \notin Range(ignoredFrom)
  /\ entries = <<>>

\* C5: first match wins; a line recognised as a reported-total line only
\* adds to the detected totals, it is neither an entry nor an ignored line.
C5_FirstMatchWins ==
  \A x \in Processed :
    (/\ ~employeeMatch(lines[x])
     /\ ~dateOnlyMatch(lines[x])
     /\ IsTotalLine(lines[x])) =>
       x \notin Range(entryFrom) /\ x \notin Range(ignoredFrom)

\* ------------------------------------- properties of the two entry patterns
\* an employee header stands before line idx, so that currentEmployee and
\* currentDate are set when the line is reached
HeaderBefore(idx) == \E h \in 1..(idx - 1) : employeeMatch(lines[h])

\* the line has the columns of an entry and no cost code after a job
\* description
FallbackOnly(line) == EntryColumns(line) /\ EntryCodeTok(line) = 0

\* C23: a scanned line that matches only the fallback pattern, below an
\* employee header, is pushed to entries with cost_code null; an entry has a
\* cost_code other than null exactly when its line matched the strict
\* pattern, and then cost_code is the text the pattern captured, as written
\* on the line (hyphen and leading zero kept).
C23_FallbackEntryHasNullCode ==
  /\ \A idx \in 1..(i - 1) :
       (idx <= Len(lines) /\ FallbackOnly(lines[idx]) /\ HeaderBefore(idx))
         => \E k \in 1..Len(entries) :
              entryFrom[k] = idx /\ entries[k].cost_code = Null
  /\ \A k \in 1..Len(entries) :
       \E line \in {lines[entryFrom[k]]} :
         /\ (entries[k].cost_code # Null) <=> entryMatch(line)
         /\ entryMatch(line) =>
              \E tok \in {line.toks[EntryCodeTok(line)]} :
                /\ entries[k].cost_code = SubSeq(tok, 1, CostCodePrefixLen(tok))
                /\ \E p \in 1..Len(entries[k].cost_code) :
                     entries[k].cost_code[p] = "-"
         /\ line = LineEntry => entries[k].cost_code = Code_09_170
         /\ line = LineEntryInt => entries[k].cost_code = Code_01_4000
         /\ line = LineEntryNoCode => entries[k].cost_code = Null

\* a returned parse with an entry from a fallback line and one from a
\* strict line
C23_Witness ==
  /\ parsePc = "done"
  /\ \E k \in 1..Len(entries) :
       /\ FallbackOnly(lines[entryFrom[k]])
       /\ entries[k].cost_code = Null
  /\ \E k \in 1..Len(entries) :
       /\ entryMatch(lines[entryFrom[k]])
       /\ entries[k].cost_code = Code_09_170

\* --------------------------------- properties of projects and their records
\* the records of a collection that do not belong to a project, in order
OtherProjects(ps, project) == SelectSeq(ps, LAMBDA p : p.id # project)
OtherRecords(rs, project) == SelectSeq(rs, LAMBDA e : e.project_id # project)

\* C22: every step of projectQueries.delete(id) leaves projects, uploads and
\* entries without a record of that project id, and leaves the projects,
\* uploads and entries of every other project as they were, in their order.
C22_DeleteCascades ==
  [][\A id \in Projects :
       DeleteProject(id) =>
         /\ \A k \in 1..Len(storeProjects') : storeProjects'[k].id # id
         /\ \A k \in 1..Len(storeUploads') : storeUploads'[k].project_id # id
         /\ \A k \in 1..Len(storeEntries') : storeEntries'[k].project_id # id
         /\ OtherProjects(storeProjects', id) = OtherProjects(storeProjects, id)
         /\ OtherRecords(storeUploads', id) = OtherRecords(storeUploads, id)
         /\ OtherRecords(storeEntries', id) = OtherRecords(storeEntries, id)
         /\ Len(storeProjects') = Len(OtherProjects(storeProjects, id))
         /\ Len(storeUploads') = Len(OtherRecords(storeUploads, id))
         /\ Len(storeEntries') = Len(OtherRecords(storeEntries, id))]_vars

\* project 1 has been deleted after an upload to it and one to project 2
\* were answered: only the project, the upload and the entries of 2 are left
C22_Witness ==
  /\ response.kind = "deleteProject" /\ response.project = 1
  /\ \E k \in 1..Len(answered) : answered[k].status = 200 /\ answered[k].project = 1
  /\ \E k \in 1..Len(answered) : answered[k].status = 200 /\ answered[k].project = 2
  /\ Len(storeProjects) = 1 /\ storeProjects[1].id = 2
  /\ Len(storeUploads) = 1 /\ storeUploads[1].project_id = 2
  /\ Len(storeEntries) >= 1
  /\ \A k \in 1..Len(storeEntries) : storeEntries[k].project_id = 2

\* ------------------------------------------ properties of upload requests
\* no upload request is in flight
AllAnswered == \A r \in 1..MaxRequests : uploadReqs[r].pc = "idle"

RECURSIVE EntriesOfRequests(_)
\* how many entries the answered requests gave to createBatch
EntriesOfRequests(as) ==
  IF as = <<>> THEN 0
  ELSE EntriesOfRequests(SubSeq(as, 1, Len(as) - 1)) + Len(as[Len(as)].batch)

\* the stored entries of one upload, in their order, without their ids
StoredOfUpload(upload) ==
  LET got == SelectSeq(storeEntries, LAMBDA e : e.upload_id = upload)
  IN [j \in 1..Len(got) |-> [got[j] EXCEPT !.id = 0]]

\* C24: once all upload requests that ran, in any interleaving, have been
\* answered, entries.json holds the entries of every request exactly once
\* (those of a request in the order of its file, under its project and its
\* upload id, and nothing else), every request has its own upload record,
\* and all entry ids and all upload ids are pairwise distinct.
C24_NoLostUpload ==
  AllAnswered =>
    /\ \A k \in 1..Len(answered) :
         /\ StoredOfUpload(answered[k].uploadId) =
              [j \in 1..Len(answered[k].batch) |->
                 StoredEntry(answered[k].batch[j], 0, answered[k].project,
                             answered[k].uploadId)]
         /\ \E u \in 1..Len(storeUploads) :
              /\ storeUploads[u].id = answered[k].uploadId
              /\ storeUploads[u].project_id = answered[k].project
         /\ \A j \in 1..Len(answered) :
              j # k => answered[j].uploadId # answered[k].uploadId
    /\ Len(storeEntries) = EntriesOfRequests(answered)
    /\ Len(storeUploads) = Len(answered)
    /\ \A j, k \in 1..Len(storeEntries) :
         j # k => storeEntries[j].id # storeEntries[k].id
    /\ \A j, k \in 1..Len(storeUploads) :
         j # k => storeUploads[j].id # storeUploads[k].id

\* two requests that overlapped: the one that created its upload record
\* second inserted its entries first and was answered first
C24_Witness ==
  /\ AllAnswered
  /\ Len(answered) = 2
  /\ answered[1].status = 200 /\ answered[1].uploadId = 2
  /\ answered[2].status = 200 /\ answered[2].uploadId = 1
  /\ Len(storeEntries) = 2
  /\ storeEntries[1].upload_id = 2 /\ storeEntries[2].upload_id = 1

\* C25: an upload request answered with an error has left neither its upload
\* record nor any time entry in the store.
C25_UploadAllOrNothing ==
  \A k \in 1..Len(answered) :
    answered[k].status = 500 =>
      /\ \A u \in 1..Len(storeUploads) : storeUploads[u].id # answered[k].uploadId
      /\ \A e \in 1..Len(storeEntries) :
           storeEntries[e].upload_id # answered[k].uploadId

\* no record of the five collections is stored under a project id
NothingStoredUnder(id, us, es, bs, as, cm) ==
  /\ \A k \in 1..Len(us) : us[k].project_id # id
  /\ \A k \in 1..Len(es) : es[k].project_id # id
  /\ \A k \in 1..Len(bs) : bs[k].project_id # id
  /\ \A k \in 1..Len(as) : as[k].project_id # id
  /\ \A k \in 1..Len(cm) : cm[k].project_id # id

\* C26: the project that a step of projectQueries.create returns has no
\* upload, time entry, budget record, area configuration or code mapping
\* stored under its id.
C26_NewProjectStartsEmpty ==
  [][\A name \in ProjectNames :
       CreateProject(name) =>
         NothingStoredUnder(response'.project, storeUploads', storeEntries',
                            budgets', areas', codeMappings')]_vars

ConfigsOf(as, project) == SelectSeq(as, LAMBDA c : c.project_id = project)
ConfigsNotOf(as, project) == SelectSeq(as, LAMBDA c : c.project_id # project)

\* the configuration a save starts from: the stored one, or an empty one
ConfigBefore(as, project) ==
  IF ConfigsOf(as, project) = <<>>
  THEN [project_id |-> project, mappings |-> <<>>,
        adjustments |-> [budget |-> <<>>, actual |-> <<>>]]
  ELSE ConfigsOf(as, project)[1]

\* object after holds the pairs of given, and besides them the pairs of
\* before under the keys that given does not name
MergedInto(before, given, after) ==
  /\ ObjKeys(after) = ObjKeys(before) \cup ObjKeys(given)
  /\ Len(after) = Cardinality(ObjKeys(after))
  /\ \A key \in ObjKeys(given) : ObjGet(after, key) = ObjGet(given, key)
  /\ \A key \in ObjKeys(before) \ ObjKeys(given) :
       ObjGet(after, key) = ObjGet(before, key)

\* C28: areas.json never holds two configurations of one project; a step of
\* saveMappings overwrites the mapping keys named in the call, keeps every
\* other mapping of the project and its adjustments; a step of
\* saveAdjustments does the same to the budget and the actual adjustments
\* and keeps the mappings; the configurations of other projects stay as
\* they were.
C28_AreaConfigMerged ==
  /\ [](\A p \in Projects : Len(ConfigsOf(areas, p)) <= 1)
  /\ [][\A p \in Projects, m \in AreaMappings :
          SaveMappings(p, m) =>
            /\ Len(ConfigsOf(areas', p)) = 1
            /\ MergedInto(ConfigBefore(areas, p).mappings, m,
                          ConfigsOf(areas', p)[1].mappings)
            /\ ConfigsOf(areas', p)[1].adjustments = ConfigBefore(areas, p).adjustments
            /\ ConfigsNotOf(areas', p) = ConfigsNotOf(areas, p)]_vars
  /\ [][\A p \in Projects, a \in AreaAdjustments :
          SaveAdjustments(p, a.budgetAdjustments, a.actualAdjustments) =>
            /\ Len(ConfigsOf(areas', p)) = 1
            /\ MergedInto(ConfigBefore(areas, p).adjustments.budget,
                          a.budgetAdjustments,
                          ConfigsOf(areas', p)[1].adjustments.budget)
            /\ MergedInto(ConfigBefore(areas, p).adjustments.actual,
                          a.actualAdjustments,
                          ConfigsOf(areas', p)[1].adjustments.actual)
            /\ ConfigsOf(areas', p)[1].mappings = ConfigBefore(areas, p).mappings
            /\ ConfigsNotOf(areas', p) = ConfigsNotOf(areas, p)]_vars

\* project 1 holds the mapping of "building 1" from a first save next to
\* the mapping of "bldg 1" that a second save overwrote, and adjustments of
\* two saves; project 2 has a configuration of its own
C28_Witness ==
  /\ Len(areas) = 2
  /\ \E c \in {ConfigBefore(areas, 1)} :
       /\ ObjKeys(c.mappings) = {Label_bldg1, Label_building1}
       /\ ObjGet(c.mappings, Label_bldg1) = <<>>
       /\ ObjGet(c.mappings, Label_building1) = Label_cuyfalbld1
       /\ ObjKeys(c.adjustments.budget) = {Label_Shop, Label_CuyFalBld1}
  /\ ConfigBefore(areas, 2).mappings # <<>>

\* ------------------------------------------- properties of the job totals
RECURSIVE SumValues(_)
\* the sum of the values of an object
SumValues(o) ==
  IF o = <<>> THEN 0 ELSE SumValues(SubSeq(o, 1, Len(o) - 1)) + o[Len(o)][2]

\* for every job key, the total of getJobCostCodeTotals is the sum of its
\* costCodes and the total getJobTotals has for the key
JobKeyTotalsAgree ==
  \A p \in Projects :
    \E jobs \in {getJobTotals(storeEntries, p)} :
    \E byCode \in {getJobCostCodeTotals(storeEntries, p)} :
      /\ ObjKeys(byCode) = ObjKeys(jobs.totals)
      /\ \A key \in ObjKeys(byCode) :
           /\ ObjGet(byCode, key).total = SumValues(ObjGet(byCode, key).costCodes)
           /\ ObjGet(byCode, key).total = ObjGet(jobs.totals, key)

\* C29: for every project the totals of getJobTotals add up to the hours
\* of the project's stored entries, and for every job key the total of
\* getJobCostCodeTotals is the sum of its costCodes and the total of
\* getJobTotals for that key.
C29_JobTotalsConserveHours ==
  /\ \A p \in Projects :
       SumValues(getJobTotals(storeEntries, p).totals) =
         SumHours(ProjectEntries(storeEntries, p))
  /\ JobKeyTotalsAgree

\* -------------------------------------- properties of the budget upload
\* the pairs of a raw costCodeHours that count: a code the server's
\* normalizer gives a key, and finite hours
ValidPairs(raw) ==
  {k \in 1..Len(raw) :
     normalizeCostCode_server(raw[k][1]) # Null /\ raw[k][2] # {}}

RECURSIVE HoursUnderKey(_, _)
\* the hours of the valid raw codes that normalize to a key, added up
HoursUnderKey(raw, key) ==
  IF raw = <<>> THEN 0
  ELSE HoursUnderKey(SubSeq(raw, 1, Len(raw) - 1), key)
         + (IF Len(raw) \in ValidPairs(raw)
               /\ normalizeCostCode_server(raw[Len(raw)][1]) = key
            THEN CHOOSE h \in raw[Len(raw)][2] : TRUE
            ELSE 0)

\* costCodeHours is absent, or none of its pairs counts
NoUsableData(body) ==
  body.costCodeHours = {} \/ ValidPairs(FieldOrEmpty(body.costCodeHours)) = {}

StatedNormalize(s) ==
  IF s = Null THEN Null
  ELSE LET d == SelectSeq(BeforePoint(s), LAMBDA c : c \in Range(DigitSeq) \cup {"-"})
       IN IF d = <<>> THEN Null
          ELSE IF "-" \in Range(d) \/ Len(d) < 4 THEN d
          ELSE IF Len(d) = 4 /\ d[1] # "0"
               THEN <<"0", d[1], "-", d[2], d[3], d[4]>>
          ELSE <<d[1], d[2], "-">> \o SubSeq(d, 3, Len(d))

\* C7: normalizeCostCode (either copy of the store) follows the stated
\* algorithm for every input; "1200" gives "01-200", "09-170" gives "09-170"
\* and "10240" gives "10-240".
C7_FollowsStatedAlgorithm ==
  ncPc \in {"once", "twice"} =>
    /\ ncOnce = StatedNormalize(ncInput)
    /\ ncOnceDb = StatedNormalize(ncInput)
    /\ ncInput = Code_1200 => ncOnce = Code_01_200 /\ ncOnceDb = Code_01_200
    /\ ncInput = Code_09_170 => ncOnce = Code_09_170 /\ ncOnceDb = Code_09_170
    /\ ncInput = Code_10240 => ncOnce = Code_10_240 /\ ncOnceDb = Code_10_240

\* C8: normalizing a normalized key gives the same key, null stays null.
C8_Idempotent ==
  ncPc = "twice" => ncTwice = ncOnce /\ ncTwiceDb = ncOnceDb

\* "1200" went to "01-200" and stayed there
C8_Witness ==
  /\ ncPc = "twice"
  /\ ncInput = Code_1200
  /\ ncOnce = Code_01_200
  /\ ncTwice = Code_01_200
  /\ ncTwiceDb = Code_01_200

\* ----------------------------------------- properties of the comparison
\* the last request was answered with a comparison
Compared ==
  response.status = 200 /\ response.kind \in {"postBudget", "getBudget"}

Rows == response.comparison

\* the budget record the answered comparison took its hours from: the one just
\* created by an upload, else the project's latest; 0 when there is none
UsedBudgetId ==
  IF response.kind = "postBudget" THEN response.budgetId
  ELSE IF response.latest = {} THEN 0
  ELSE (CHOOSE b \in response.latest : TRUE).id

\* the costCodeHours that record was uploaded with
UsedRaw ==
  IF UsedBudgetId = 0 THEN <<>>
  ELSE budgetRaw[CHOOSE k \in 1..Len(budgets) : budgets[k].id = UsedBudgetId]

\* raw codes with finite budget hours in that upload which are also the
\* cost_code of an entry of the project
JoinedRawCodes ==
  {c \in ObjKeys(UsedRaw) :
     /\ ObjGet(UsedRaw, c) # {}
     /\ \E k \in 1..Len(storeEntries) :
          /\ storeEntries[k].project_id = response.project
          /\ storeEntries[k].cost_code = c}

\* C6: a raw cost code that has budget hours in the budget in use and is the
\* cost_code of stored entries of the project gets the same key from the
\* budget upload handler and from getCostCodeTotals, and the comparison has
\* exactly one row for it, holding its budget hours and its actual hours.
C6_SameKeyBothSides ==
  Compared =>
    \A c \in JoinedRawCodes :
      /\ normalizeCostCode_server(c) = normalizeCostCode(c)
      /\ Cardinality({k \in 1..Len(Rows) :
                        Rows[k].cost_code \in {normalizeCostCode_server(c),
                                               normalizeCostCode(c)}}) = 1

\* C9: in every row of the comparison variance_hours is actual_hours minus
\* budget_hours, and variance_percent is null exactly when budget_hours is 0.
C9_VarianceOfEveryRow ==
  Compared =>
    \A k \in 1..Len(Rows) :
      /\ Rows[k].variance_hours = Rows[k].actual_hours - Rows[k].budget_hours
      /\ (Rows[k].variance_percent = {}) <=> (Rows[k].budget_hours = 0)

BudgetCodes == ObjKeys(response.budgetHours)

ActualCodes == ObjKeys(getCostCodeTotals(storeEntries, response.project))

AreaAnswered ==
  /\ response.status = 200
  /\ response.kind \in {"postBudget", "getBudget", "getAreas", "saveMappings",
                        "saveAdjustments"}

AreaRowsAnswered == response.areaComparison.comparison

\* the cost-code breakdown the answer holds for an area key
BreakdownAnswered(key) == ObjGet(response.areaComparison.costCodeBreakdown, key)

\* C11: in every answered area comparison, for every area row the breakdown
\* of the row's key has the row's budget_hours as totalBudget, and the
\* budget_hours of its entries add up to that total.
C11_BreakdownSumsToAreaTotal ==
  AreaAnswered =>
    \A k \in 1..Len(AreaRowsAnswered) :
      /\ ObjHas(response.areaComparison.costCodeBreakdown, AreaRowsAnswered[k].key)
      /\ BreakdownAnswered(AreaRowsAnswered[k].key).totalBudget
           = AreaRowsAnswered[k].budget_hours
      /\ SumBudgetHours(BreakdownAnswered(AreaRowsAnswered[k].key).entries)
           = AreaRowsAnswered[k].budget_hours

\* the budget record an answered area comparison worked with ({} when the
\* project has none): the one just created by an upload, else the latest
AreaBudgetUsed ==
  IF response.kind = "postBudget"
  THEN {budgets[k] : k \in {j \in 1..Len(budgets) : budgets[j].id = response.budgetId}}
  ELSE getLatestByProject(budgets, response.project)

AreaHoursUsed ==
  IF AreaBudgetUsed = {} THEN <<>> ELSE (CHOOSE b \in AreaBudgetUsed : TRUE).area_hours

\* the area configuration of the answered project
ConfigAnswered == AreaConfigOf(areas, response.project)

\* the target key of a budget label: the mapping declared for its normalized
\* key if there is one (an empty mapping declares none), else that key
TargetOfLabel(label) ==
  LET key == normalizeJobLabel(label)
      declared == {ConfigAnswered.mappings[j][2] :
                     j \in {pos \in 1..Len(ConfigAnswered.mappings) :
                              /\ ConfigAnswered.mappings[pos][1] = key
                              /\ ConfigAnswered.mappings[pos][2] \notin {Null, <<>>}}}
  IN IF declared # {} THEN CHOOSE t \in declared : TRUE ELSE key

\* the sum of the values of an object at a set of positions
RECURSIVE SumAt(_, _)
SumAt(o, S) ==
  IF S = {} THEN 0
  ELSE LET j == CHOOSE x \in S : TRUE IN o[j][2] + SumAt(o, S \ {j})

BudgetLabelsAt(k) ==
  {j \in 1..Len(AreaHoursUsed) : TargetOfLabel(AreaHoursUsed[j][1]) = k}

AdjustmentsAt(adjustments, k) ==
  {j \in 1..Len(adjustments) : normalizeJobLabel(adjustments[j][1]) = k}

JobEntriesAt(k) ==
  {j \in 1..Len(storeEntries) :
     /\ storeEntries[j].project_id = response.project
     /\ normalizeJobLabel(storeEntries[j].job_description) = k}

RECURSIVE SumEntryHours(_)
SumEntryHours(S) ==
  IF S = {} THEN 0
  ELSE LET j == CHOOSE x \in S : TRUE IN storeEntries[j].hours + SumEntryHours(S \ {j})

\* every key a budget label, an adjustment or an entry of the project leads to
AreaKeysExpected ==
  {TargetOfLabel(AreaHoursUsed[j][1]) : j \in 1..Len(AreaHoursUsed)}
    \cup {normalizeJobLabel(ConfigAnswered.adjustments.budget[j][1]) :
            j \in 1..Len(ConfigAnswered.adjustments.budget)}
    \cup {normalizeJobLabel(ConfigAnswered.adjustments.actual[j][1]) :
            j \in 1..Len(ConfigAnswered.adjustments.actual)}
    \cup {normalizeJobLabel(storeEntries[j].job_description) :
            j \in {pos \in 1..Len(storeEntries) :
                     storeEntries[pos].project_id = response.project}}

\* C13: in every answered area comparison there is exactly one row for every
\* key that a budget label (through its mapping), an adjustment or a job of
\* the project leads to; its budget_hours are the area hours of all budget
\* labels whose target key it is plus the budget adjustments for it, and its
\* actual_hours are the hours of the project's entries on that job plus the
\* actual adjustments for it.
C13_AreaRowsReconcile ==
  AreaAnswered =>
    /\ {AreaRowsAnswered[r].key : r \in 1..Len(AreaRowsAnswered)} = AreaKeysExpected
    /\ \A r, q \in 1..Len(AreaRowsAnswered) :
         AreaRowsAnswered[r].key = AreaRowsAnswered[q].key => r = q
    /\ \A r \in 1..Len(AreaRowsAnswered) :
         /\ AreaRowsAnswered[r].budget_hours
              = SumAt(AreaHoursUsed, BudgetLabelsAt(AreaRowsAnswered[r].key))
                + SumAt(ConfigAnswered.adjustments.budget,
                        AdjustmentsAt(ConfigAnswered.adjustments.budget,
                                      AreaRowsAnswered[r].key))
         /\ AreaRowsAnswered[r].actual_hours
              = SumEntryHours(JobEntriesAt(AreaRowsAnswered[r].key))
                + SumAt(ConfigAnswered.adjustments.actual,
                        AdjustmentsAt(ConfigAnswered.adjustments.actual,
                                      AreaRowsAnswered[r].key))

\* a row that two budget labels are mapped to, with adjustments on both sides
\* and hours worked on its job
C13_Witness ==
  /\ AreaAnswered
  /\ \E r \in 1..Len(AreaRowsAnswered) :
       /\ Cardinality(BudgetLabelsAt(AreaRowsAnswered[r].key)) >= 2
       /\ AdjustmentsAt(ConfigAnswered.adjustments.budget, AreaRowsAnswered[r].key) # {}
       /\ AdjustmentsAt(ConfigAnswered.adjustments.actual, AreaRowsAnswered[r].key) # {}
       /\ JobEntriesAt(AreaRowsAnswered[r].key) # {}
       /\ AreaRowsAnswered[r].budget_hours = Hours(28)

\* ----------------------------------------- properties of the upload history
\* the positions in budgets.json of the records of the answered project
RecordsOfProject ==
  {k \in 1..Len(budgets) : budgets[k].project_id = response.project}

\* the record of the answered project that was created last
MostRecentlyCreated ==
  budgets[CHOOSE k \in RecordsOfProject : \A j \in RecordsOfProject : j <= k]

\* C12: a reconciliation that is given no budget (GET of the budget route and
\* of the areas route) works with the hours of the record of its project that
\* was created last: the cost-code hours in the comparison and the area hours
\* in the area comparison are those of that record.
C12_LatestCreatedIsUsed ==
  (/\ response.status = 200
   /\ response.kind \in {"getBudget", "getAreas"}
   /\ RecordsOfProject # {})
  => /\ response.kind = "getBudget" =>
          response.budgetHours = MostRecentlyCreated.cost_code_hours
     /\ response.areaComparison.budgetAreas
          = BudgetAreasOf(MostRecentlyCreated.area_hours)

\* ----------------------------------------- properties of the stored entries
\* the positions of the entries of a project
EntriesOf(project) ==
  {j \in 1..Len(storeEntries) : storeEntries[j].project_id = project}

\* the positions of the entries of a project whose cost_code gives the key k
\* under the normalizer of part_000, and under that of database.js
EntriesWithKey(project, k) ==
  {j \in EntriesOf(project) :
     /\ storeEntries[j].cost_code \notin {Null, <<>>}
     /\ normalizeCostCode(storeEntries[j].cost_code) = k}

EntriesWithKey_database_js(project, k) ==
  {j \in EntriesOf(project) :
     /\ storeEntries[j].cost_code \notin {Null, <<>>}
     /\ normalizeCostCode_database_js(storeEntries[j].cost_code) = k}

\* C14: in both copies of the store getCostCodeTotals of a project has one key
\* for every key a cost_code of the project's entries normalizes to, holding
\* the sum of the hours of those entries, and nothing for the entries whose
\* cost_code is null or normalizes to nothing; getByProject still answers
\* with every stored entry of the project, those included.
C14_TotalsSkipUncodedEntries ==
  /\ \A p \in Projects :
       /\ \A k \in ObjKeys(getCostCodeTotals(storeEntries, p)) \cup
                   {normalizeCostCode(storeEntries[j].cost_code) :
                      j \in {e \in EntriesOf(p) :
                               storeEntries[e].cost_code \notin {Null, <<>>}}} :
            /\ k # Null
               => /\ Cardinality({n \in 1..Len(getCostCodeTotals(storeEntries, p)) :
                                    getCostCodeTotals(storeEntries, p)[n][1] = k}) = 1
                  /\ ObjGet(getCostCodeTotals(storeEntries, p), k)
                       = SumEntryHours(EntriesWithKey(p, k))
            /\ k = Null => ~ObjHas(getCostCodeTotals(storeEntries, p), k)
       /\ \A k \in ObjKeys(getCostCodeTotals_database_js(storeEntries, p)) \cup
                   {normalizeCostCode_database_js(storeEntries[j].cost_code) :
                      j \in {e \in EntriesOf(p) :
                               storeEntries[e].cost_code \notin {Null, <<>>}}} :
            /\ k # Null
               => /\ Cardinality({n \in 1..Len(getCostCodeTotals_database_js(storeEntries, p)) :
                                    getCostCodeTotals_database_js(storeEntries, p)[n][1] = k}) = 1
                  /\ ObjGet(getCostCodeTotals_database_js(storeEntries, p), k)
                       = SumEntryHours(EntriesWithKey_database_js(p, k))
            /\ k = Null => ~ObjHas(getCostCodeTotals_database_js(storeEntries, p), k)
  /\ (response.kind = "getEntries" =>
        /\ Len(response.entries) = Cardinality(EntriesOf(response.project))
        /\ \A j \in EntriesOf(response.project) :
             \E n \in 1..Len(response.entries) : response.entries[n] = storeEntries[j])

\* the entries of a project were read while one of them has no usable cost
\* code and another one is in the totals
C14_Witness ==
  /\ response.kind = "getEntries"
  /\ \E n, q \in 1..Len(response.entries) :
       /\ response.entries[n].cost_code = Null
       /\ response.entries[q].cost_code \notin {Null, <<>>}
       /\ normalizeCostCode(response.entries[q].cost_code) # Null
       /\ ObjKeys(getCostCodeTotals(storeEntries, response.project))
            = {normalizeCostCode(response.entries[q].cost_code)}

\* C17: a successful updateEntry leaves the store as long as it was and
\* changes at most cost_code and job_description of the entry it addresses
\* (the one it returns), whatever the updates object holds: every other field
\* of that entry and every other entry stay as they were.  No other step
\* changes an entry: after it every entry is in the store as it was, or has
\* been removed with its project.
C17_OnlyTwoFieldsEditable ==
  [][IF response'.kind = "updateEntry" /\ response'.status = 200
     THEN /\ Len(storeEntries') = Len(storeEntries)
          /\ \A k \in 1..Len(storeEntries) :
               IF storeEntries[k].id = response'.entries[1].id
               THEN storeEntries'[k] =
                      [storeEntries[k] EXCEPT
                         !.cost_code = storeEntries'[k].cost_code,
                         !.job_description = storeEntries'[k].job_description]
               ELSE storeEntries'[k] = storeEntries[k]
     ELSE \A k \in 1..Len(storeEntries) :
            \/ \E j \in 1..Len(storeEntries') : storeEntries'[j] = storeEntries[k]
            \/ /\ response'.kind = "deleteProject"
               /\ storeEntries[k].project_id = response'.project
               /\ \A j \in 1..Len(storeEntries') :
                    storeEntries'[j].id # storeEntries[k].id]_vars

\* an update that was given hours and an id besides the two fields has been
\* applied to one of two stored entries
C17_Witness ==
  /\ response.kind = "updateEntry"
  /\ response.status = 200
  /\ Len(storeEntries) >= 2
  /\ response.entries[1].job_description = <<"S","h","o","p">>
  /\ response.entries[1].cost_code = Null
  /\ \E k \in 1..Len(storeEntries) : storeEntries[k] = response.entries[1]

\* ------------------------------------------ properties of the summary
\* the lines that reach the reported-total test and pass it
ReportedTotalLines ==
  {x \in 1..Len(lines) :
     /\ ~IsEmptyLine(lines[x])
     /\ ~employeeMatch(lines[x])
     /\ ~dateOnlyMatch(lines[x])
     /\ IsTotalLine(lines[x])}

\* the values recorded for them: the first number of the line, if above 0
RecordedTotals ==
  {v \in {parseNumber(FirstNumber(lines[x])) :
            x \in {y \in ReportedTotalLines : FirstNumber(lines[y]) # Null}} :
     v > 0}

\* C15: when the parse has returned, detectedTotalHours is the largest of
\* the values recorded for the reported-total lines of the document,
\* wherever those lines stand, and null when no value was recorded.
C15_DetectedTotalIsMaximum ==
  parsePc = "done" =>
    IF RecordedTotals = {} THEN detectedTotalHours = {}
    ELSE /\ detectedTotalHours \subseteq RecordedTotals
         /\ Cardinality(detectedTotalHours) = 1
         /\ \A m \in detectedTotalHours : \A v \in RecordedTotals : m >= v

\* a returned parse of a document whose last reported-total line holds a
\* smaller value than an earlier one
C15_Witness ==
  /\ parsePc = "done"
  /\ Cardinality(RecordedTotals) >= 2
  /\ \E x \in ReportedTotalLines :
       /\ \A y \in ReportedTotalLines : y <= x
       /\ FirstNumber(lines[x]) # Null
       /\ \E v \in RecordedTotals : v > parseNumber(FirstNumber(lines[x]))
  /\ \E m \in detectedTotalHours :
       \E x \in ReportedTotalLines :
         /\ m = parseNumber(FirstNumber(lines[x]))
         /\ \E y \in ReportedTotalLines : y > x

\* the hours of the entries at a set of positions, added up
RECURSIVE SumOfEntryHours(_)
SumOfEntryHours(S) ==
  IF S = {} THEN 0
  ELSE LET k == CHOOSE x \in S : TRUE IN entries[k].hours + SumOfEntryHours(S \ {k})

\* parsedHours is the sum of the hours of the emitted entries
ParsedHoursIsSumOfEntries ==
  parsePc = "done" => parsedHours = SumOfEntryHours(1..Len(entries))

\* C16: when the parse has returned, parsedHours is the sum of the hours of
\* the emitted entries, and no emitted entry comes from a line that went to
\* ignoredLines or from a reported-total line, so that those lines add
\* nothing to it.
C16_OnlyEntriesCount ==
  parsePc = "done" =>
    /\ parsedHours = SumOfEntryHours(1..Len(entries))
    /\ \A k \in 1..Len(entries) :
         /\ entryFrom[k] \notin Range(ignoredFrom)
         /\ entryFrom[k] \notin ReportedTotalLines

\* ------------------------------------------ properties of the context
\* C19: a step over a standalone date line changes currentDate (to the date
\* of the line) and leaves currentEmployee and currentUnionLocal alone; a
\* step over any line that is not an employee header (blank, noise,
\* reported total, time entry) and the final summary change no field of the
\* context; currentEmployee and currentUnionLocal, once set, are set at
\* every later step.
C19_ContextFrame ==
  [][/\ (Scanning /\ ~IsEmptyLine(lines[i]) /\ ~employeeMatch(lines[i])
           /\ dateOnlyMatch(lines[i]))
          => /\ currentDate' = lines[i].toks[1]
             /\ currentEmployee' = currentEmployee
             /\ currentUnionLocal' = currentUnionLocal
     /\ (~Scanning \/ IsEmptyLine(lines[i])
           \/ (~employeeMatch(lines[i]) /\ ~dateOnlyMatch(lines[i])))
          => /\ currentDate' = currentDate
             /\ currentEmployee' = currentEmployee
             /\ currentUnionLocal' = currentUnionLocal
     /\ currentEmployee \notin {Null, <<>>} => currentEmployee' \notin {Null, <<>>}
     /\ currentUnionLocal \notin {Null, <<>>} => currentUnionLocal' \notin {Null, <<>>}
    ]_vars

\* a header, then a standalone date with another date, then a line that is
\* neither have been scanned: the context holds the header's employee and
\* union local and the date of the date line
C19_Witness ==
  \E h, d, n \in Processed :
    /\ h < d /\ d < n
    /\ employeeMatch(lines[h])
    /\ ~employeeMatch(lines[d]) /\ dateOnlyMatch(lines[d])
    /\ ~IsEmptyLine(lines[n]) /\ ~employeeMatch(lines[n]) /\ ~dateOnlyMatch(lines[n])
    /\ lines[d].toks[1] # EmployeeParts(lines[h]).date
    /\ currentEmployee = EmployeeParts(lines[h]).name
    /\ currentUnionLocal = EmployeeParts(lines[h]).unionLocal
    /\ currentDate = lines[d].toks[1]

\* the ParseResult: entries, parsedHours, detectedTotalHours (null or one
\* number) and ignoredLines, none of them longer than the document
ParseResultReturned ==
  /\ parsePc = "done"
  /\ i = Len(lines) + 1
  /\ Len(entries) <= Len(lines)
  /\ Len(ignoredLines) <= Len(lines)
  /\ Len(entries) + Len(ignoredLines) <= Len(lines)
  /\ parsedHours \in Nat
  /\ Cardinality(detectedTotalHours) <= 1

\* C18: on every document, every step of the line scan takes the line at i and
\* moves to the next line, the document itself unchanged, so each line is
\* visited once; no step raises; and the call ends by returning a ParseResult.
C18_FailOpen ==
  /\ [][(parsePc = "scan" /\ i <= Len(lines))
          => (i' = i + 1 /\ lines' = lines /\ parsePc' = "scan")]_vars
  /\ [](parsePc # "threw")
  /\ <>ParseResultReturned

\* the returned result of a document none of whose lines is an entry, a
\* header or a date: every line malformed (noise, a bare entry, an entry-like
\* line without hours columns)
C18_Witness ==
  /\ ParseResultReturned
  /\ Len(lines) = MaxFairLines
  /\ \A k \in 1..Len(lines) : lines[k] \in {LineNoise, LineEntryBare, LineLooks}
  /\ entries = <<>>

\* ------------------------------------------------------------ C20
\* the reads of the calls of a request: those of its finished calls and
\* those of the call it is in
ReadsOfCalls(req) ==
  {req.calls[k].reads : k \in 1..Len(req.calls)} \cup {req.reads}

\* C20: the store reads of one call of buildBudgetComparison or
\* buildAreaComparison are all made at the same count of store writes, so no
\* write of another request lies between them, and each saw its file as it
\* was then; a finished call has made every read of its list (budgets and
\* cost-code totals; budgets, area config, job totals and job cost-code totals).
C20_OneSnapshotPerCall ==
  \A r \in 1..MaxRequests :
    /\ \A reads \in ReadsOfCalls(requests[r]) :
         \A a, b \in 1..Len(reads) : reads[a].at = reads[b].at
    /\ \A k \in 1..Len(requests[r].calls) :
         LET call == requests[r].calls[k]
             files == ReadFiles(call.name, requests[r].given # {})
         IN /\ Len(call.reads) = Len(files)
            /\ \A a \in 1..Len(files) : call.reads[a].file = files[a]
            /\ call.reads[1].at = writes =>
                 \A a \in 1..Len(files) : call.reads[a].seen = FileNow(files[a])

\* a GET of the budget whose two calls are finished, the reads of the first
\* made before a write of another request and those of the second after it,
\* while that other request is still in flight
C20_Witness ==
  \E r, q \in 1..MaxRequests :
    /\ r # q
    /\ requests[r].kind = "getBudget"
    /\ Len(requests[r].calls) = 2
    /\ requests[r].calls[1].reads[1].at < requests[r].calls[2].reads[1].at
    /\ requests[q].kind \in {"saveMappings", "postBudget"}
    /\ requests[q].step > 1
    /\ Len(requests[r].calls[2].reads) = 4

\* ------------------------------------------------------------ C21
Date_10_24_23 == <<"1","0","/","2","4","/","2","3">>
Date_05_01_75 == <<"0","5","/","0","1","/","7","5">>
Iso_2023_10_24 == <<"2","0","2","3","-","1","0","-","2","4">>
Iso_1975_05_01 == <<"1","9","7","5","-","0","5","-","0","1">>

\* C21: convertDate of MM/DD/YY is the ten characters CCYY-MM-DD with the
\* month, the day and the two year digits of the input, and CC is 20 when
\* the number YY is below 50 and 19 otherwise; 10/24/23 gives 2023-10-24
\* and 05/01/75 gives 1975-05-01.
C21_ConvertDatePivot ==
  datePc = "out" =>
    LET yy == 10 * DigitVal(dateInput[7]) + DigitVal(dateInput[8])
    IN /\ Len(dateOutput) = 10
       /\ <<dateOutput[1], dateOutput[2]>> =
            (IF yy < 50 THEN <<"2","0">> ELSE <<"1","9">>)
       /\ <<dateOutput[3], dateOutput[4]>> = <<dateInput[7], dateInput[8]>>
       /\ dateOutput[5] = "-"
       /\ <<dateOutput[6], dateOutput[7]>> = <<dateInput[1], dateInput[2]>>
       /\ dateOutput[8] = "-"
       /\ <<dateOutput[9], dateOutput[10]>> = <<dateInput[4], dateInput[5]>>
       /\ dateInput = Date_10_24_23 => dateOutput = Iso_2023_10_24
       /\ dateInput = Date_05_01_75 => dateOutput = Iso_1975_05_01

\* the conversion of a date of the pivot year: 12/31/50 gives 1950-12-31
C21_Witness ==
  /\ datePc = "out"
  /\ dateInput = <<"1","2","/","3","1","/","5","0">>
  /\ dateOutput = <<"1","9","5","0","-","1","2","-","3","1">>
====
